---- MODULE Spec2Model ----
(***************************************************************************)
(* Traffic-safety data warehouse: the ETL script (etl.py), the fact        *)
(* assembler (creat_fact_table.py) and the vehicle classification of the   *)
(* rule-mining step (association_mining.py), as state machines over the    *)
(* tables they read and write.                                             *)
(*                                                                         *)
(* Text values on which the code does character work (crash identifiers,   *)
(* area names, year-month keys) are sequences of one-character strings;    *)
(* other text values are strings.  A table is [cols, rows]: the header as  *)
(* a sequence of column names and the rows as functions from column name   *)
(* to cell value.                                                          *)
(***************************************************************************)
EXTENDS Integers, Sequences, FiniteSets, TLC

VARIABLES
    pc,        \* position of the running script
    data,      \* the raw input tables (data/ directory), read-only
    output,    \* the persisted tables (output/ directory): file name -> table or NoFile
    mem,       \* in-memory tables of the running ETL script
    ret,       \* return value of create_fact_table: "none", "True", "False"
    runs       \* output/ as every completed pipeline run left it

vars == <<pc, data, output, mem, ret, runs>>

(***************************************************************************)
(* Cell values                                                             *)
(***************************************************************************)
\* numpy NaN in a numeric column (the value -9 is replaced by)
NaN == -1
\* NaN / None in a text column
NaNStr == "NaN"
\* NaN in a column of character sequences (an empty CSV cell)
NaNText == <<>>
\* the upstream sentinel for "missing"
Sentinel == -9
\* a file that does not exist in output/
NoFile == [cols |-> <<>>, rows |-> <<>>, exists |-> FALSE]

Table(cols, rows) == [cols |-> cols, rows |-> rows, exists |-> TRUE]

Range(s) == {s[i] : i \in DOMAIN s}

HasCols(t, names) == names \subseteq Range(t.cols)

(***************************************************************************)
(* Text: decimal formatting and parsing, padding, substring                *)
(***************************************************************************)
Digit == <<"0", "1", "2", "3", "4", "5", "6", "7", "8", "9">>

DigitChars == Range(Digit)

DigitVal(c) == (CHOOSE i \in DOMAIN Digit : Digit[i] = c) - 1

RECURSIVE Str(_)
\* str(n) of a non-negative integer
Str(n) == IF n < 10 THEN <<Digit[n + 1]>> ELSE Str(n \div 10) \o <<Digit[(n % 10) + 1]>>

IsDigits(s) == Len(s) > 0 /\ \A i \in DOMAIN s : s[i] \in DigitChars

RECURSIVE ParseInt(_)
\* int(s) of a string of decimal digits
ParseInt(s) ==
    IF Len(s) = 0 THEN 0
    ELSE 10 * ParseInt(SubSeq(s, 1, Len(s) - 1)) + DigitVal(s[Len(s)])

RECURSIVE ZFill(_, _)
\* str.zfill(w)
ZFill(s, w) == IF Len(s) >= w THEN s ELSE ZFill(<<"0">> \o s, w)

\* s[:n]
Take(s, n) == SubSeq(s, 1, IF Len(s) < n THEN Len(s) ELSE n)

\* Python's  sub in s  on str
Contains(s, sub) ==
    \E i \in 0..(Len(s) - Len(sub)) : SubSeq(s, i + 1, i + Len(sub)) = sub

(***************************************************************************)
(* Table algebra used by both scripts                                      *)
(***************************************************************************)
RECURSIVE Flatten(_)
Flatten(ss) == IF Len(ss) = 0 THEN <<>> ELSE Head(ss) \o Flatten(Tail(ss))

RECURSIVE SumSeq(_)
SumSeq(s) == IF Len(s) = 0 THEN 0 ELSE Head(s) + SumSeq(Tail(s))

AddCols(row, extra) == extra @@ row

Pick(row, names) == [c \in names |-> row[c]]

\* the rows of `right` whose key columns `on` equal those of `l`, in right order
Matches(l, right, on) ==
    SelectSeq(right, LAMBDA r : \A k \in on : r[k] = l[k])

\* DataFrame.merge(right[on + add], on=on, how="left"): every left row is kept,
\* once per matching right row, with the nulls of the added columns when there
\* is none (`nulls` is a row holding the null of each added column)
LeftMergeOne(l, right, on, nulls) ==
    LET m == Matches(l, right, on)
    IN  IF Len(m) = 0 THEN <<AddCols(l, nulls)>>
        ELSE [j \in 1..Len(m) |-> AddCols(l, Pick(m[j], DOMAIN nulls))]

LeftMerge(left, right, on, nulls) ==
    Flatten([i \in 1..Len(left) |-> LeftMergeOne(left[i], right, on, nulls)])

\* DataFrame.drop_duplicates(subset=keys): the first row of every key value
DropDuplicates(rows, keys) ==
    LET keep == {i \in 1..Len(rows) :
                    \A j \in 1..(i - 1) : Pick(rows[j], keys) # Pick(rows[i], keys)}
        F[i \in 0..Len(rows)] ==
            IF i = 0 THEN <<>>
            ELSE IF i \in keep THEN Append(F[i - 1], rows[i]) ELSE F[i - 1]
    IN  F[Len(rows)]

\* Series.count(): the non-null cells
CountNonNull(rows, col) == Cardinality({i \in 1..Len(rows) : rows[i][col] # NaN})

\* Series.sum(): nulls are skipped
SumNonNull(rows, col) ==
    SumSeq([i \in 1..Len(rows) |-> IF rows[i][col] = NaN THEN 0 ELSE rows[i][col]])

(***************************************************************************)
(* Season dimension rows (etl.py)                                          *)
(***************************************************************************)
get_season(month) ==
    IF month \in {12, 1, 2} THEN "Summer"
    ELSE IF month \in {3, 4, 5} THEN "Autumn"
    ELSE IF month \in {6, 7, 8} THEN "Winter"
    ELSE "Spring"

Quarter(month) == ((month - 1) \div 3) + 1

\* Season_ID = Year.astype(str) + '_' + Quarter.astype(str)
SeasonId(year, quarter) == Str(year) \o <<"_">> \o Str(quarter)

\* one row of season_rows with its Season_ID
SeasonRow(year, month) ==
    [Year |-> year, Month |-> month, Season |-> get_season(month),
     Quarter |-> Quarter(month), Season_ID |-> SeasonId(year, Quarter(month))]

SeasonCols == <<"Year", "Month", "Season", "Quarter", "Season_ID">>

(***************************************************************************)
(* The fact assembler: create_fact_table (creat_fact_table.py)             *)
(***************************************************************************)
DimensionFiles ==
    {"crash_type_dimension", "road_condition_dimension", "vehicle_dimension",
     "driver_dimension", "location_dimension", "population_dimension",
     "season_dimension", "lga_dimension"}

\* str.lower() on the column names the tables carry
Lower(name) ==
    CASE name = "Crash ID" -> "crash id"
      [] name = "Crash Type" -> "crash type"
      [] name = "Number Fatalities" -> "number fatalities"
      [] name = "Year" -> "year"
      [] name = "Month" -> "month"
      [] name = "Season" -> "season"
      [] name = "Quarter" -> "quarter"
      [] name = "Season_ID" -> "season_id"
      [] name = "State" -> "state"
      [] name = "Date" -> "date"
      [] name = "Age" -> "age"
      [] name = "Age Group" -> "age group"
      [] name = "National Remoteness Areas" -> "national remoteness areas"
      [] name = "National LGA Name 2021" -> "national lga name 2021"
      [] name = "Remoteness Area" -> "remoteness area"
      [] name = "Population" -> "population"
      [] name = "Data Source" -> "data source"
      [] name = "LGA Name" -> "lga name"
      [] name = "Bus Involvement" -> "bus involvement"
      [] name = "Heavy Rigid Truck Involvement" -> "heavy rigid truck involvement"
      [] name = "Articulated Truck Involvement" -> "articulated truck involvement"
      [] OTHER -> name

\* rename(columns={old: new}): no effect when the column is absent
Rename(name, old, new) == IF name = old THEN new ELSE name

MapCols(t, f(_)) ==
    [t EXCEPT !.cols = [i \in DOMAIN t.cols |-> f(t.cols[i])],
              !.rows = [i \in DOMAIN t.rows |->
                          [c \in {f(k) : k \in DOMAIN t.rows[i]} |->
                              t.rows[i][CHOOSE k \in DOMAIN t.rows[i] : f(k) = c]]]]

\* read_csv(path): the file with its column names lowercased
ReadCsv(t) == MapCols(t, Lower)

StateMap ==
    [c \in {"1", "2", "3", "4", "5", "6", "7", "8"} |->
        CASE c = "1" -> "NSW" [] c = "2" -> "VIC" [] c = "3" -> "QLD"
          [] c = "4" -> "SA"  [] c = "5" -> "WA"  [] c = "6" -> "TAS"
          [] c = "7" -> "NT"  [] c = "8" -> "ACT"]

\* crash_id.astype(str).str[:4].astype(int) raises unless the prefix is numeric
YearDecodable(crash_id) == IsDigits(Take(crash_id, 4))

DecodeYear(crash_id) == ParseInt(Take(crash_id, 4))

\* decoding that takes the 5th character as a digit 0..7 of the table
DecodeState_ZeroBased(crash_id) ==
    IF Len(crash_id) >= 5 /\ crash_id[5] \in {"0", "1", "2", "3", "4", "5", "6", "7"}
    THEN StateMap[Digit[DigitVal(crash_id[5]) + 2]] ELSE NaNStr

\* crash_id.astype(str).str[4].map({...}): null for a short id or an unmapped digit
DecodeState(crash_id) ==
    IF Len(crash_id) >= 5 /\ crash_id[5] \in DOMAIN StateMap
    THEN StateMap[crash_id[5]] ELSE NaNStr

\* step 3: fact_id in row order, year and state decoded from crash_id
BuildFact(crash_rows) ==
    [i \in 1..Len(crash_rows) |->
        AddCols(crash_rows[i],
                [fact_id |-> i,
                 year |-> DecodeYear(crash_rows[i].crash_id),
                 state |-> DecodeState(crash_rows[i].crash_id)])]

\* time_id = (year.astype(str) + month.astype(str).str.zfill(2)).astype(int)
TimeId(year, month) == ParseInt(Str(year) \o ZFill(Str(month), 2))

WithTimeId(season_rows) ==
    [i \in 1..Len(season_rows) |->
        AddCols(season_rows[i],
                [time_id |-> TimeId(season_rows[i].year, season_rows[i].month)])]

\* step 4: season_ref = season_df.drop_duplicates(subset=["year"]), merged on year
SeasonRef(season_rows) == DropDuplicates(WithTimeId(season_rows), {"year"})

MergeSeason(fact_rows, season_rows) ==
    LeftMerge(fact_rows, SeasonRef(season_rows), {"year"},
              [season_id |-> NaNText, time_id |-> NaN])

\* the drivers counted as distinct crash identifiers (nunique of the group key)
DriverCounts_Nunique(driver_rows) ==
    LET groups == DropDuplicates(driver_rows, {"crash_id"})
    IN  [g \in 1..Len(groups) |->
            [crash_id |-> groups[g].crash_id, driver_count |-> 1]]

\* step 7: driver_df.groupby("crash_id")["driver_id"].count()
DriverCounts(driver_rows) ==
    LET groups == DropDuplicates(driver_rows, {"crash_id"})
    IN  [g \in 1..Len(groups) |->
            [crash_id |-> groups[g].crash_id,
             driver_count |->
                CountNonNull(Matches(groups[g], driver_rows, {"crash_id"}),
                             "driver_id")]]

\* fillna(0) on one column
FillNa0(rows, col) ==
    [i \in 1..Len(rows) |->
        IF rows[i][col] = NaN THEN [rows[i] EXCEPT ![col] = 0] ELSE rows[i]]

\* steps 5-7: the crash_id stand-in keys, then driver_count merged and 0-filled
MergeDriverCount(fact_rows, driver_rows) ==
    LET keyed == [i \in 1..Len(fact_rows) |->
                    AddCols(fact_rows[i],
                            [road_condition_id |-> fact_rows[i].crash_id,
                             vehicle_id |-> fact_rows[i].crash_id])]
    IN  FillNa0(LeftMerge(keyed, DriverCounts(driver_rows), {"crash_id"},
                          [driver_count |-> NaN]),
                "driver_count")

\* step 8: merge(location_df[["location_id", "state"]], on="state", how="left")
MergeLocation(fact_rows, location_rows) ==
    LeftMerge(fact_rows, location_rows, {"state"}, [location_id |-> NaN])

\* steps 9-10: merge(population_df[...], on=["state", "year"]), lga_id = crash_id
MergePopulation(fact_rows, population_rows) ==
    LET merged == LeftMerge(fact_rows, population_rows, {"state", "year"},
                            [population_id |-> NaN])
    IN  [i \in 1..Len(merged) |->
            AddCols(merged[i], [lga_id |-> merged[i].crash_id])]

\* step 11: fact_df.groupby("year").agg(crash_id count, fatalities sum)
YearlyStats(fact_rows) ==
    LET groups == DropDuplicates(fact_rows, {"year"})
    IN  [g \in 1..Len(groups) |->
            LET members == Matches(groups[g], fact_rows, {"year"})
            IN  [year |-> groups[g].year,
                 \* count of crash_id: no crash_id is null
                 yearly_crash_count |-> Len(members),
                 yearly_fatality_count |-> SumNonNull(members, "fatalities")]]

\* crash_date = to_datetime(year.astype(str) + "-01-01")
CrashDate(year) == Str(year) \o <<"-", "0", "1", "-", "0", "1">>

\* steps 11-12: the yearly aggregates merged back on year, and crash_date
MergeYearly(fact_rows) ==
    LET merged == LeftMerge(fact_rows, YearlyStats(fact_rows), {"year"},
                            [yearly_crash_count |-> NaN,
                             yearly_fatality_count |-> NaN])
    IN  [i \in 1..Len(merged) |->
            AddCols(merged[i], [crash_date |-> CrashDate(merged[i].year)])]

columns_order ==
    <<"fact_id", "crash_id", "time_id", "location_id", "road_condition_id",
      "season_id", "vehicle_id", "driver_count", "population_id", "lga_id",
      "fatalities", "yearly_crash_count", "yearly_fatality_count", "crash_date">>

\* step 13: fact_df[columns_order]
SelectColumns(fact_rows) ==
    [i \in 1..Len(fact_rows) |-> Pick(fact_rows[i], Range(columns_order))]

\* steps 1-2: the eight dimension files read, column names lowercased; step 3's
\* rename of "number fatalities"
LoadDimensions(files) ==
    [crash_df |-> MapCols(ReadCsv(files["crash_type_dimension"]),
                          LAMBDA c : Rename(c, "number fatalities", "fatalities")),
     driver_df |-> ReadCsv(files["driver_dimension"]),
     location_df |-> ReadCsv(files["location_dimension"]),
     population_df |-> ReadCsv(files["population_dimension"]),
     season_df |-> ReadCsv(files["season_dimension"])]

\* whether steps 1-13 run without raising: every file is there, every column
\* the steps index is there, and every crash_id has a numeric year prefix
AssemblyRuns(files) ==
    /\ \A f \in DimensionFiles : files[f].exists
    /\ LET df == LoadDimensions(files)
       IN  /\ HasCols(df.crash_df, {"crash_id", "fatalities"})
           /\ \A i \in DOMAIN df.crash_df.rows :
                 YearDecodable(df.crash_df.rows[i].crash_id)
           /\ HasCols(df.season_df, {"month", "year", "season_id"})
           /\ HasCols(df.driver_df, {"crash_id", "driver_id"})
           /\ HasCols(df.location_df, {"location_id", "state"})
           /\ HasCols(df.population_df, {"population_id", "state", "year"})

\* steps 3-13 in order: fact_df as it is written
AssembleFact(files) ==
    LET df == LoadDimensions(files)
        built == BuildFact(df.crash_df.rows)
        seasoned == MergeSeason(built, df.season_df.rows)
        counted == MergeDriverCount(seasoned, df.driver_df.rows)
        located == MergeLocation(counted, df.location_df.rows)
        populated == MergePopulation(located, df.population_df.rows)
        aggregated == MergeYearly(populated)
    IN  SelectColumns(aggregated)

\* the output file opened before the joins, so that a failing run leaves it empty
create_fact_table_WriteFirst ==
    /\ pc = "fct_start"
    /\ pc' = "fct_done"
    /\ output' = [output EXCEPT !["fact_table"] =
                    Table(columns_order,
                          IF AssemblyRuns(output) THEN AssembleFact(output) ELSE <<>>)]
    /\ ret' = IF AssemblyRuns(output) THEN "True" ELSE "False"
    /\ UNCHANGED <<data, mem, runs>>

\* create_fact_table(): on success fact_table.csv is overwritten and True is
\* returned; any exception is caught, nothing is written, False is returned
create_fact_table ==
    /\ pc = "fct_start"
    /\ pc' = "fct_done"
    /\ IF AssemblyRuns(output)
       THEN /\ output' = [output EXCEPT !["fact_table"] =
                            Table(columns_order, AssembleFact(output))]
            /\ ret' = "True"
       ELSE /\ ret' = "False"
            /\ UNCHANGED output
    /\ UNCHANGED <<data, mem, runs>>

(***************************************************************************)
(* The ETL script (etl.py)                                                 *)
(***************************************************************************)
\* the columns of the raw tables that hold numbers
NumericCols == {"Year", "Month", "Number Fatalities", "Age",
                "Bus Involvement", "Heavy Rigid Truck Involvement",
                "Articulated Truck Involvement"}

\* the tables passed on as they were read
clean_missing_values_Keep(rows) == rows

\* clean_missing_values: df.replace(-9, np.nan)
clean_missing_values(rows) ==
    [i \in 1..Len(rows) |->
        [c \in DOMAIN rows[i] |->
            IF c \in NumericCols /\ rows[i][c] = Sentinel THEN NaN ELSE rows[i][c]]]

MinYear == 2001
MaxYear == 2023

\* (Year >= 2001) & (Year <= 2023): a comparison with NaN is False
InWindow(year) == year # NaN /\ year >= MinYear /\ year <= MaxYear

YearFilter(rows) == SelectSeq(rows, LAMBDA r : InWindow(r["Year"]))

\* Year.astype(str) + '-' + Month.astype(str).str.zfill(2)
YearMonth(year, month) == Str(year) \o <<"-">> \o ZFill(Str(month), 2)

\* the standardized date: year-month-01
DateOf(year, month) == YearMonth(year, month) \o <<"-", "0", "1">>

WithDate(rows) ==
    [i \in 1..Len(rows) |->
        AddCols(rows[i], ("Date" :> DateOf(rows[i]["Year"], rows[i]["Month"])))]

\* every fatality record of the window kept, whatever its crash
KeepValidCrashes_All(fatality_rows, crash_rows) == fatality_rows

\* fatalities[fatalities['Crash ID'].isin(valid_crash_ids)]
KeepValidCrashes(fatality_rows, crash_rows) ==
    SelectSeq(fatality_rows,
              LAMBDA r : \E i \in 1..Len(crash_rows) :
                            crash_rows[i]["Crash ID"] = r["Crash ID"])

UnknownText == <<"U", "n", "k", "n", "o", "w", "n">>

\* a dimension: the listed columns of every row
Project(rows, cols) == [i \in 1..Len(rows) |-> Pick(rows[i], Range(cols))]

\* fillna('Unknown') on a text column
FillUnknown(rows, col) ==
    [i \in 1..Len(rows) |->
        IF rows[i][col] = NaNText THEN [rows[i] EXCEPT ![col] = UnknownText]
        ELSE rows[i]]

\* drop_duplicates() on whole rows
DropDuplicateRows(rows) ==
    IF Len(rows) = 0 THEN rows ELSE DropDuplicates(rows, DOMAIN rows[1])

\* Series.dropna().unique(): the distinct non-null values in order of appearance
UniqueNonNull(rows, col) ==
    LET vals == [i \in 1..Len(rows) |-> (col :> rows[i][col])]
        kept == DropDuplicates(SelectSeq(vals, LAMBDA v : v[col] # NaNText), {col})
    IN  [i \in 1..Len(kept) |-> kept[i][col]]

LocationCols == <<"Crash ID", "State", "National Remoteness Areas",
                  "National LGA Name 2021">>

location_dim(crash_rows) ==
    DropDuplicateRows(FillUnknown(Project(crash_rows, LocationCols),
                                  "National LGA Name 2021"))

VehicleCols == <<"Crash ID", "Bus Involvement", "Heavy Rigid Truck Involvement",
                 "Articulated Truck Involvement">>

vehicle_dim(crash_rows) == DropDuplicateRows(Project(crash_rows, VehicleCols))

RoadConditionCols == <<"Crash ID">>

road_condition_dim(crash_rows) ==
    DropDuplicateRows(Project(crash_rows, RoadConditionCols))

TimeCols == <<"Crash ID", "Month", "Year", "Date">>

time_dim(crash_rows) == DropDuplicateRows(Project(crash_rows, TimeCols))

CrashTypeDimCols == <<"Crash ID", "Number Fatalities">>

crash_type_dim(crash_rows) == DropDuplicateRows(Project(crash_rows, CrashTypeDimCols))

(***************************************************************************)
(* Driver dimension and age repair.  Ages of the dimension are held in     *)
(* quarter-years, so that the median of two ages, and the median of two    *)
(* such medians, is an integer.                                            *)
(***************************************************************************)
AgeUnit == 4

DriverCols == <<"Crash ID", "Age", "Age Group">>

ToAge(a) == IF a = NaN THEN NaN ELSE AgeUnit * a

\* the k-th smallest element of a non-empty sequence of numbers
Kth(s, k) ==
    CHOOSE x \in Range(s) :
        /\ Cardinality({i \in 1..Len(s) : s[i] < x}) < k
        /\ k <= Cardinality({i \in 1..Len(s) : s[i] <= x})

\* Series.median(): nulls skipped, NaN when nothing is left
Median(ages) ==
    LET s == SelectSeq(ages, LAMBDA a : a # NaN)
        n == Len(s)
    IN  IF n = 0 THEN NaN
        ELSE IF n % 2 = 1 THEN Kth(s, (n + 1) \div 2)
        ELSE (Kth(s, n \div 2) + Kth(s, (n \div 2) + 1)) \div 2

Ages(rows) == [i \in 1..Len(rows) |-> rows[i]["Age"]]

\* driver_dim[driver_dim['Age Group'] == age_group]['Age'].median()
GroupMedian(rows, age_group) ==
    Median(Ages(SelectSeq(rows, LAMBDA r : r["Age Group"] = age_group)))

NoGroup(age_group) == age_group \in {NaNStr, "Unknown", "-9"}

\* get_median_age against the table as it is before any filling
get_median_age(rows, age_group) ==
    IF NoGroup(age_group) THEN Median(Ages(rows)) ELSE GroupMedian(rows, age_group)

\* the repair without its last fill: what the group medians leave null stays
RepairAges_GroupOnly(rows) ==
    [i \in 1..Len(rows) |->
        IF rows[i]["Age"] = NaN
        THEN [rows[i] EXCEPT !["Age"] = get_median_age(rows, rows[i]["Age Group"])]
        ELSE rows[i]]

\* lines 273-296: nothing when no age is null; else the group medians, then
\* the overall median of the filled column for what is still null
RepairAges(rows) ==
    IF \A i \in 1..Len(rows) : rows[i]["Age"] # NaN THEN rows
    ELSE LET filled == [i \in 1..Len(rows) |->
                          IF rows[i]["Age"] = NaN
                          THEN [rows[i] EXCEPT !["Age"] =
                                   get_median_age(rows, rows[i]["Age Group"])]
                          ELSE rows[i]]
             overall_median == Median(Ages(filled))
         IN  [i \in 1..Len(filled) |->
                IF filled[i]["Age"] = NaN
                THEN [filled[i] EXCEPT !["Age"] = overall_median]
                ELSE filled[i]]

driver_dim(fatality_rows) ==
    LET projected == Project(fatality_rows, DriverCols)
        scaled == [i \in 1..Len(projected) |->
                      [projected[i] EXCEPT !["Age"] = ToAge(@)]]
    IN  DropDuplicateRows(RepairAges(scaled))

(***************************************************************************)
(* The stand-alone age repair (fix_driver_age.py)                          *)
(***************************************************************************)
\* the age is filled from the overall median whatever the label
FixMedianAge_Overall(rows, age_group) == Median(Ages(rows))

\* get_median_age of fix_driver_age.py: the label '-9' is a group like another
FixMedianAge(rows, age_group) ==
    IF age_group \in {NaNStr, "Unknown"} THEN Median(Ages(rows))
    ELSE GroupMedian(rows, age_group)

\* lines 34-58.  The last fill is Series.fillna(inplace=True) on a column
\* selection: it reaches the table or a temporary copy depending on the
\* copy-on-write mode of the installed pandas, hence `reaches_table`
FixAges(rows, reaches_table) ==
    LET filled == [i \in 1..Len(rows) |->
                      IF rows[i]["Age"] = NaN
                      THEN [rows[i] EXCEPT !["Age"] =
                               FixMedianAge(rows, rows[i]["Age Group"])]
                      ELSE rows[i]]
        overall_median == Median(Ages(filled))
    IN  [i \in 1..Len(filled) |->
           IF filled[i]["Age"] = NaN /\ reaches_table
           THEN [filled[i] EXCEPT !["Age"] = overall_median]
           ELSE filled[i]]

\* the whole script: backup and repair when an age is null, nothing otherwise
fix_driver_age ==
    /\ pc = "fix_start"
    /\ LET dimension == output["driver_dimension"]
       IN  IF \E i \in DOMAIN dimension.rows : dimension.rows[i]["Age"] = NaN
           THEN \E reaches_table \in BOOLEAN :
                  output' = [output EXCEPT
                               !["driver_dimension_backup"] = dimension,
                               !["driver_dimension"] =
                                   Table(dimension.cols,
                                         FixAges(dimension.rows, reaches_table))]
           ELSE UNCHANGED output
    /\ pc' = "fix_done"
    /\ UNCHANGED <<data, mem, ret, runs>>

(***************************************************************************)
(* Population dimension: remoteness and LGA matching                       *)
(***************************************************************************)
MajorCities == <<"M", "a", "j", "o", "r", " ", "C", "i", "t", "i", "e", "s">>

InnerRegional == <<"I", "n", "n", "e", "r", " ", "R", "e", "g", "i", "o", "n", "a", "l">>

OuterRegional == <<"O", "u", "t", "e", "r", " ", "R", "e", "g", "i", "o", "n", "a", "l">>

Remote == <<"R", "e", "m", "o", "t", "e">>

VeryRemote == <<"V", "e", "r", "y", " ", "R", "e", "m", "o", "t", "e">>

remoteness_categories == <<MajorCities, InnerRegional, OuterRegional, Remote, VeryRemote>>

Australia == <<"A", "u", "s", "t", "r", "a", "l", "i", "a">>

states == <<<<"N", "S", "W">>,
            <<"V", "i", "c">>,
            <<"Q", "l", "d">>,
            <<"S", "A">>,
            <<"W", "A">>,
            <<"T", "a", "s">>,
            <<"N", "T">>,
            <<"A", "C", "T">>>>

\* area_name = f"{category} Australia ({state})"
RefAreaName(category, state) ==
    category \o <<" ", "A", "u", "s", "t", "r", "a", "l", "i", "a", " ", "(">> \o state \o <<")">>

\* one record of remoteness_data
RefRow(state, category, population) ==
    [State |-> state, Remoteness_Category |-> category,
     Remoteness_Area |-> RefAreaName(category, state), Population |-> population]

\* the number of lines scanned for a category, the introducing line included
Window == 10

RECURSIVE Strip(_)
\* str.strip() for blanks
Strip(v) ==
    IF Len(v) = 0 THEN v
    ELSE IF Head(v) = " " THEN Strip(Tail(v))
    ELSE IF v[Len(v)] = " " THEN Strip(SubSeq(v, 1, Len(v) - 1))
    ELSE v

\* value.replace('.', '', 1)
RemoveFirstDot(v) ==
    LET dots == {i \in DOMAIN v : v[i] = "."}
    IN  IF dots = {} THEN v
        ELSE LET d == CHOOSE i \in dots : \A j \in dots : i <= j
             IN  SubSeq(v, 1, d - 1) \o SubSeq(v, d + 1, Len(v))

\* value and value.replace('.', '', 1).isdigit()
NumericLooking(value) == Len(value) > 0 /\ IsDigits(RemoveFirstDot(value))

\* float(value) of a numeric-looking value without fraction digits: its whole part
ParseFloat(value) ==
    LET dots == {i \in DOMAIN value : value[i] = "."}
    IN  IF dots = {} THEN ParseInt(value)
        ELSE ParseInt(SubSeq(value, 1, (CHOOSE i \in dots : TRUE) - 1))

\* sub in line, for a line held as its comma-separated values and a text
\* without comma
LineHas(line, sub) == \E t \in DOMAIN line : Contains(line[t], sub)

\* the inner loop of lines 128-132: the first of `states` found in a line
\* that also holds 'Australia', 0 when there is none
StateOfLine(line) ==
    LET hits == {k \in 1..Len(states) : LineHas(line, states[k])}
    IN  IF hits = {} \/ ~LineHas(line, Australia) THEN 0
        ELSE CHOOSE k \in hits : \A j \in hits : k <= j

\* state_indices: for every jurisdiction found, the last line that names it
state_indices(lines) ==
    [k \in {StateOfLine(lines[i]) : i \in DOMAIN lines} \ {0} |->
        CHOOSE i \in DOMAIN lines :
            /\ StateOfLine(lines[i]) = k
            /\ \A j \in DOMAIN lines : StateOfLine(lines[j]) = k => j <= i]

\* state_indices.items(): the jurisdictions in the order they were first found
StateOrder(lines) ==
    LET G[i \in 0..Len(lines)] ==
            IF i = 0 THEN <<>>
            ELSE IF StateOfLine(lines[i]) = 0 \/ StateOfLine(lines[i]) \in Range(G[i - 1])
                 THEN G[i - 1]
                 ELSE Append(G[i - 1], StateOfLine(lines[i]))
    IN  G[Len(lines)]

\* lines 138-158 for one jurisdiction and one category: the first line of the
\* window that holds the category, and its first numeric-looking value
CategoryEntry(lines, k, start_idx, category) ==
    LET last == IF start_idx + Window - 1 < Len(lines)
                THEN start_idx + Window - 1 ELSE Len(lines)
        found == {i \in start_idx..last : LineHas(lines[i], category)}
    IN  IF found = {} THEN <<>>
        ELSE LET i == CHOOSE x \in found : \A y \in found : x <= y
                 values == [t \in DOMAIN lines[i] |-> Strip(lines[i][t])]
                 numeric == {t \in DOMAIN values : NumericLooking(values[t])}
             IN  IF numeric = {} THEN <<>>
                 ELSE <<RefRow(states[k], category,
                               ParseFloat(values[CHOOSE t \in numeric :
                                                    \A u \in numeric : t <= u]))>>

\* lines 120-160: remoteness_data, jurisdiction by jurisdiction
parse_remoteness(lines) ==
    LET order == StateOrder(lines)
    IN  Flatten([s \in 1..Len(order) |->
            Flatten([c \in 1..Len(remoteness_categories) |->
                CategoryEntry(lines, order[s], state_indices(lines)[order[s]],
                              remoteness_categories[c])])])

\* the remoteness reference as the script holds it: parsed from the lines of
\* remoteness_areas.csv when the input gives the lines, else the rows given
ReadRemoteness(input) ==
    IF "remoteness_lines" \in DOMAIN input
    THEN parse_remoteness(input.remoteness_lines)
    ELSE input.remoteness_df

RECURSIVE Scan_FirstFallback(_, _, _, _)
\* the loop keeping the first category+state hit instead of the last
Scan_FirstFallback(area, ref_rows, i, best_match) ==
    IF i > Len(ref_rows) THEN best_match
    ELSE LET row == ref_rows[i]
         IN  IF area = row.Remoteness_Area THEN <<row>>
             ELSE IF Contains(area, row.Remoteness_Area) THEN <<row>>
             ELSE IF /\ Contains(area, row.Remoteness_Category)
                     /\ Contains(area, row.State)
                     /\ Len(best_match) = 0
                  THEN Scan_FirstFallback(area, ref_rows, i + 1, <<row>>)
             ELSE Scan_FirstFallback(area, ref_rows, i + 1, best_match)

RECURSIVE Scan(_, _, _, _)
\* the loop over remoteness_df.iterrows(): equality or containment of the
\* reference name ends the loop, a category+state hit is kept and the loop goes on
Scan(area, ref_rows, i, best_match) ==
    IF i > Len(ref_rows) THEN best_match
    ELSE LET row == ref_rows[i]
         IN  IF area = row.Remoteness_Area THEN <<row>>
             ELSE IF Contains(area, row.Remoteness_Area) THEN <<row>>
             ELSE IF /\ Contains(area, row.Remoteness_Category)
                     /\ Contains(area, row.State)
                  THEN Scan(area, ref_rows, i + 1, <<row>>)
             ELSE Scan(area, ref_rows, i + 1, best_match)

\* best_match for one area: <<>> for None, <<row>> for a reference row
BestMatch(area, ref_rows) == Scan(area, ref_rows, 1, <<>>)

\* the state of an area name: the first of `states` it contains
AreaState(area) ==
    LET hits == {k \in 1..Len(states) : Contains(area, states[k])}
    IN  IF hits = {} THEN UnknownText
        ELSE states[CHOOSE k \in hits : \A j \in hits : k <= j]

RemotenessEntry(area, ref_rows) ==
    LET best == IF Len(ref_rows) = 0 THEN <<>> ELSE BestMatch(area, ref_rows)
    IN  ("Remoteness Area" :> area
         @@ "State" :> AreaState(area)
         @@ "Population" :> (IF Len(best) = 0 THEN NaN ELSE best[1].Population)
         @@ "Data Source" :> (IF Len(best) = 0 THEN "Derived" ELSE "Reference Data"))

\* one entry per reference row whose name the area contains, and a derived
\* entry when there is none
remoteness_entries_PerReference(unique_remoteness, ref_rows) ==
    Flatten([i \in 1..Len(unique_remoteness) |->
        LET hits == SelectSeq(ref_rows,
                              LAMBDA r : Contains(unique_remoteness[i], r.Remoteness_Area))
        IN  IF Len(hits) = 0
            THEN <<RemotenessEntry(unique_remoteness[i], ref_rows)>>
            ELSE [k \in 1..Len(hits) |-> RemotenessEntry(unique_remoteness[i], <<hits[k]>>)]])

\* remoteness_entries: one entry per distinct area name
remoteness_entries(unique_remoteness, ref_rows) ==
    [i \in 1..Len(unique_remoteness) |-> RemotenessEntry(unique_remoteness[i], ref_rows)]

\* re.search(pattern, text) for a pattern of literal characters, '.' and
\* balanced parentheses: '.' stands for any character, and the parentheses
\* form a group and stand for no character
RegexSearch(text, pattern) ==
    LET body == SelectSeq(pattern, LAMBDA c : c \notin {"(", ")"})
    IN  \E i \in 0..(Len(text) - Len(body)) :
            \A k \in 1..Len(body) : body[k] = "." \/ text[i + k] = body[k]

\* lga_df[lga_df['LGA_Name'].str.contains(lga, na=False)]: the reference rows
\* whose name the crash-data name, taken as a pattern, is found in
LgaMatches(lga, lga_rows) == SelectSeq(lga_rows, LAMBDA r : RegexSearch(r.LGA_Name, lga))

LgaEntry(lga, lga_rows) ==
    LET match == LgaMatches(lga, lga_rows)
    IN  ("LGA Name" :> lga
         @@ "Population" :> (IF Len(match) = 0 THEN NaN ELSE match[1].LGA_Population)
         @@ "Data Source" :> (IF Len(match) = 0 THEN "Derived" ELSE "Reference Data"))

lga_entries(unique_lgas, lga_rows) ==
    LET named == SelectSeq(unique_lgas, LAMBDA l : l # UnknownText)
    IN  [i \in 1..Len(named) |-> LgaEntry(named[i], lga_rows)]

PopulationCols == <<"Remoteness Area", "State", "Population", "Data Source">>

LgaCols == <<"LGA Name", "Population", "Data Source">>

\* the fallback when there is no remoteness entry: the distinct (State, area)
\* pairs of the crash data, a table without Population and Data Source
BasicPopulation(crash_rows) ==
    LET pairs == SelectSeq(crash_rows,
                           LAMBDA r : r["National Remoteness Areas"] # NaNText)
    IN  DropDuplicateRows(
            [i \in 1..Len(pairs) |->
                ("State" :> pairs[i]["State"]
                 @@ "Remoteness Area" :> pairs[i]["National Remoteness Areas"])])

(***************************************************************************)
(* Season dimension and the ETL's fact table                               *)
(***************************************************************************)
\* fatal_crash[['Year', 'Month']].drop_duplicates(), one season row each
season_dim(crash_rows) ==
    LET year_month_combinations == DropDuplicateRows(Project(crash_rows, <<"Year", "Month">>))
    IN  [i \in 1..Len(year_month_combinations) |->
            SeasonRow(year_month_combinations[i]["Year"],
                      year_month_combinations[i]["Month"])]

WithYearMonth(rows) ==
    [i \in 1..Len(rows) |->
        AddCols(rows[i],
                ("Year-Month" :> YearMonth(rows[i]["Year"], rows[i]["Month"])))]

\* the aggregates grouped by the year alone
monthly_counts_Yearly(crash_rows) ==
    LET keyed == WithYearMonth(crash_rows)
        groups == DropDuplicates(keyed, {"Year-Month"})
    IN  [g \in 1..Len(groups) |->
            LET members == Matches(groups[g], keyed, {"Year"})
            IN  ("Year-Month" :> groups[g]["Year-Month"]
                 @@ "Monthly_Crash_Count" :> Len(members)
                 @@ "Monthly_Fatality_Count" :> SumNonNull(members, "Number Fatalities"))]

\* fatal_crash.groupby('Year-Month').agg(count of Crash ID, sum of Number Fatalities)
monthly_counts(crash_rows) ==
    LET keyed == WithYearMonth(crash_rows)
        groups == DropDuplicates(keyed, {"Year-Month"})
    IN  [g \in 1..Len(groups) |->
            LET members == Matches(groups[g], keyed, {"Year-Month"})
            IN  ("Year-Month" :> groups[g]["Year-Month"]
                 \* count of Crash ID: no Crash ID is null
                 @@ "Monthly_Crash_Count" :> Len(members)
                 @@ "Monthly_Fatality_Count" :> SumNonNull(members, "Number Fatalities"))]

FactBaseCols == <<"Crash ID", "State", "Number Fatalities", "Year", "Month", "Date">>

FactCols == FactBaseCols \o <<"Monthly_Crash_Count", "Monthly_Fatality_Count",
                              "Season", "Season_ID">>

\* lines 535-578
fact_table(crash_rows, season_rows) ==
    LET base == Project(crash_rows, FactBaseCols)
        keyed == LeftMerge(base, WithYearMonth(crash_rows), {"Crash ID"},
                           ("Year-Month" :> NaNText))
        counted == LeftMerge(keyed, monthly_counts(crash_rows), {"Year-Month"},
                             ("Monthly_Crash_Count" :> NaN
                              @@ "Monthly_Fatality_Count" :> NaN))
        seasoned == LeftMerge(counted, season_rows, {"Year", "Month"},
                              ("Season" :> NaNStr @@ "Season_ID" :> NaNText))
    IN  DropDuplicateRows(Project(seasoned, FactCols))

(***************************************************************************)
(* The ETL script as a sequence of stages                                  *)
(***************************************************************************)
\* a write that appends to the rows already in the file
Write_Append(file, cols, rows) ==
    [output EXCEPT ![file] = Table(cols, output[file].rows \o rows)]

\* DataFrame.to_csv(path, index=False): the file is replaced
Write(file, cols, rows) == [output EXCEPT ![file] = Table(cols, rows)]

\* the six files read inside the try block of lines 35-169
InputFiles == {"bitre_fatal_crash", "bitre_fatalities",
               "bitre_fatal_crash_count_by_date", "bitre_fatalities_count_by_date",
               "local_government_areas", "remoteness_areas"}

\* the load going on with whatever could be read
etl_load_Tolerant ==
    /\ pc = "etl_start"
    /\ mem' = [fatal_crash |-> data.fatal_crash, fatalities |-> data.fatalities,
               remoteness_df |-> ReadRemoteness(data), lga_df |-> data.lga_df,
               season_dim |-> <<>>]
    /\ pc' = "etl_clean"
    /\ UNCHANGED <<data, output, ret, runs>>

\* lines 33-169: the input files are read and parsed; read_csv or open raising
\* on one of them is caught and the script exits with status 1
etl_load ==
    /\ pc = "etl_start"
    /\ IF data.missing = {}
       THEN /\ mem' = [fatal_crash |-> data.fatal_crash, fatalities |-> data.fatalities,
                       remoteness_df |-> ReadRemoteness(data), lga_df |-> data.lga_df,
                       season_dim |-> <<>>]
            /\ pc' = "etl_clean"
       ELSE /\ pc' = "etl_exit"
            /\ UNCHANGED mem
    /\ UNCHANGED <<data, output, ret, runs>>

\* lines 171-213: sentinel to null, the year window on both tables, the date,
\* and the fatalities restricted to the surviving crashes
etl_clean ==
    /\ pc = "etl_clean"
    /\ LET crashes == WithDate(YearFilter(clean_missing_values(mem.fatal_crash)))
           killed == YearFilter(clean_missing_values(mem.fatalities))
       IN  mem' = [mem EXCEPT !.fatal_crash = crashes,
                              !.fatalities = KeepValidCrashes(killed, crashes)]
    /\ pc' = "etl_location"
    /\ UNCHANGED <<data, output, ret, runs>>

etl_location ==
    /\ pc = "etl_location"
    /\ output' = Write("location_dimension", LocationCols, location_dim(mem.fatal_crash))
    /\ pc' = "etl_vehicle"
    /\ UNCHANGED <<data, mem, ret, runs>>

etl_vehicle ==
    /\ pc = "etl_vehicle"
    /\ output' = Write("vehicle_dimension", VehicleCols, vehicle_dim(mem.fatal_crash))
    /\ pc' = "etl_road_condition"
    /\ UNCHANGED <<data, mem, ret, runs>>

etl_road_condition ==
    /\ pc = "etl_road_condition"
    /\ output' = Write("road_condition_dimension", RoadConditionCols,
                       road_condition_dim(mem.fatal_crash))
    /\ pc' = "etl_driver"
    /\ UNCHANGED <<data, mem, ret, runs>>

etl_driver ==
    /\ pc = "etl_driver"
    /\ output' = Write("driver_dimension", DriverCols, driver_dim(mem.fatalities))
    /\ pc' = "etl_time"
    /\ UNCHANGED <<data, mem, ret, runs>>

etl_time ==
    /\ pc = "etl_time"
    /\ output' = Write("time_dimension", TimeCols, time_dim(mem.fatal_crash))
    /\ pc' = "etl_population"
    /\ UNCHANGED <<data, mem, ret, runs>>

\* lines 324-462: lga_dimension.csv is written only when there is an LGA entry
etl_population ==
    /\ pc = "etl_population"
    /\ LET unique_remoteness == UniqueNonNull(mem.fatal_crash, "National Remoteness Areas")
           unique_lgas == UniqueNonNull(mem.fatal_crash, "National LGA Name 2021")
           rem == remoteness_entries(unique_remoteness, mem.remoteness_df)
           lga == lga_entries(unique_lgas, mem.lga_df)
           with_lga == IF Len(lga) > 0
                       THEN [output EXCEPT !["lga_dimension"] = Table(LgaCols, lga)]
                       ELSE output
       IN  output' =
             [with_lga EXCEPT !["population_dimension"] =
                 IF Len(rem) > 0 THEN Table(PopulationCols, rem)
                 ELSE Table(<<"State", "Remoteness Area">>,
                            BasicPopulation(mem.fatal_crash))]
    /\ pc' = "etl_crash_type"
    /\ UNCHANGED <<data, mem, ret, runs>>

etl_crash_type ==
    /\ pc = "etl_crash_type"
    /\ output' = Write("crash_type_dimension", CrashTypeDimCols,
                       crash_type_dim(mem.fatal_crash))
    /\ pc' = "etl_season"
    /\ UNCHANGED <<data, mem, ret, runs>>

etl_season ==
    /\ pc = "etl_season"
    /\ mem' = [mem EXCEPT !.season_dim = season_dim(mem.fatal_crash)]
    /\ output' = Write("season_dimension", SeasonCols, mem'.season_dim)
    /\ pc' = "etl_fact"
    /\ UNCHANGED <<data, ret, runs>>

etl_fact ==
    /\ pc = "etl_fact"
    /\ output' = Write("fact_table", FactCols,
                       fact_table(mem.fatal_crash, mem.season_dim))
    /\ pc' = "etl_done"
    /\ UNCHANGED <<data, mem, ret, runs>>

etl ==
    \/ etl_load
    \/ etl_clean
    \/ etl_location
    \/ etl_vehicle
    \/ etl_road_condition
    \/ etl_driver
    \/ etl_time
    \/ etl_population
    \/ etl_crash_type
    \/ etl_season
    \/ etl_fact

(***************************************************************************)
(* Vehicle classification of the rule-mining step (association_mining.py)  *)
(***************************************************************************)
\* the chain tested in the order Bus, Heavy Rigid Truck, Articulated Truck
vehicle_type_BusFirst(row) ==
    IF row["Bus Involvement"] = 1 THEN "Bus"
    ELSE IF row["Heavy Rigid Truck Involvement"] = 1 THEN "Heavy Rigid Truck"
    ELSE IF row["Articulated Truck Involvement"] = 1 THEN "Articulated Truck"
    ELSE "Other"

\* the lambda applied to every row of vehicle_df
vehicle_type(row) ==
    IF row["Articulated Truck Involvement"] = 1 THEN "Articulated Truck"
    ELSE IF row["Heavy Rigid Truck Involvement"] = 1 THEN "Heavy Rigid Truck"
    ELSE IF row["Bus Involvement"] = 1 THEN "Bus"
    ELSE "Other"

\* vehicle_df["vehicle_type"] = vehicle_df.apply(..., axis=1)
am_classify ==
    /\ pc = "am_start"
    /\ mem' = [vehicle_df |->
                  [i \in DOMAIN output["vehicle_dimension"].rows |->
                      AddCols(output["vehicle_dimension"].rows[i],
                              [vehicle_type |->
                                  vehicle_type(output["vehicle_dimension"].rows[i])])]]
    /\ pc' = "am_classified"
    /\ UNCHANGED <<data, output, ret, runs>>

(***************************************************************************)
(* The pipeline: the ETL, then the fact assembler, run again on the same   *)
(* raw files                                                               *)
(***************************************************************************)
MaxRuns == 2

start_fact_assembler ==
    /\ pc = "etl_done"
    /\ pc' = "fct_start"
    /\ UNCHANGED <<data, output, mem, ret, runs>>

\* the run is over; the next one starts as a new process on the same data/
\* and the output/ the run left
finish_run ==
    /\ pc = "fct_done"
    /\ Len(runs) < MaxRuns
    /\ runs' = Append(runs, [output |-> output, ret |-> ret])
    /\ pc' = IF Len(runs') < MaxRuns THEN "etl_start" ELSE "pipeline_done"
    /\ mem' = <<>>
    /\ ret' = "none"
    /\ UNCHANGED <<data, output>>

(***************************************************************************)
(* The integrity auditor (data_quality_check.py)                           *)
(***************************************************************************)
SampleSize == 5

\* set(df[key].unique())
KeySet(rows, key) == {rows[i][key] : i \in DOMAIN rows}

\* list(orphans)[:5]: the first five in the iteration order of a set, which
\* the language does not fix; held as the set of the keys listed
Samples(orphans) ==
    {smp \in SUBSET orphans :
        Cardinality(smp) = IF Cardinality(orphans) < SampleSize
                           THEN Cardinality(orphans) ELSE SampleSize}

\* the orphan count taken over the rows of df2, not over its distinct keys
check_referential_integrity_Rows(df1, df2, key, dim1_name, dim2_name) ==
    LET keys_in_df1 == KeySet(df1, key)
        orphan_rows == {i \in DOMAIN df2 : df2[i][key] \notin keys_in_df1}
    IN  {[dimension |-> dim1_name, fact |-> dim2_name, key |-> key,
          unique_keys_1 |-> Cardinality(keys_in_df1),
          unique_keys_2 |-> Cardinality(KeySet(df2, key)),
          orphaned |-> Cardinality(orphan_rows),
          sample |-> smp] : smp \in Samples({df2[i][key] : i \in orphan_rows})}

\* the reports check_referential_integrity can return, one per possible sample
check_referential_integrity(df1, df2, key, dim1_name, dim2_name) ==
    LET keys_in_df1 == KeySet(df1, key)
        keys_in_df2 == KeySet(df2, key)
        orphans_in_df2 == keys_in_df2 \ keys_in_df1
    IN  {[dimension |-> dim1_name, fact |-> dim2_name, key |-> key,
          unique_keys_1 |-> Cardinality(keys_in_df1),
          unique_keys_2 |-> Cardinality(keys_in_df2),
          orphaned |-> Cardinality(orphans_in_df2),
          sample |-> smp] : smp \in Samples(orphans_in_df2)}

AuditedFiles == {"location_dimension", "vehicle_dimension",
                 "road_condition_dimension", "driver_dimension",
                 "time_dimension", "population_dimension",
                 "crash_type_dimension", "fact_table"}

\* lines 146-160: the eight tables are read; a missing one ends the script
dq_load ==
    /\ pc = "dq_start"
    /\ IF \A f \in AuditedFiles : output[f].exists
       THEN /\ mem' = [f \in AuditedFiles |-> output[f].rows]
            /\ pc' = "dq_integrity"
       ELSE /\ pc' = "dq_exit"
            /\ UNCHANGED mem
    /\ UNCHANGED <<data, output, ret, runs>>

\* lines 237-257: the four checks of the fact table against a dimension, their
\* reports joined into referential_integrity_report.txt
dq_integrity ==
    /\ pc = "dq_integrity"
    /\ \E loc \in check_referential_integrity(mem["location_dimension"], mem["fact_table"],
                      "Crash ID", "Location Dimension", "Fact Table"),
          veh \in check_referential_integrity(mem["vehicle_dimension"], mem["fact_table"],
                      "Crash ID", "Vehicle Dimension", "Fact Table"),
          tim \in check_referential_integrity(mem["time_dimension"], mem["fact_table"],
                      "Crash ID", "Time Dimension", "Fact Table"),
          cra \in check_referential_integrity(mem["crash_type_dimension"], mem["fact_table"],
                      "Crash ID", "Crash Type Dimension", "Fact Table") :
          ret' = <<loc, veh, tim, cra>>
    /\ pc' = "dq_done"
    /\ UNCHANGED <<data, output, mem, runs>>

(***************************************************************************)
(* Bounds and input domains                                                *)
(***************************************************************************)
MaxCrash == 2
MaxDriver == 2
MaxLoc == 2
MaxPop == 1
MaxSeason == 2

\* sequences over S of length lo..hi
SeqsOf(S, lo, hi) == UNION {[1..k -> S] : k \in lo..hi}

Distinct(s) == \A i, j \in DOMAIN s : i # j => s[i] # s[j]

\* crash identifiers: year (4 digits), jurisdiction digit, serial
FactCrashIds == {Str(201011), Str(201012), Str(201121)}

\* fatality counts as persisted by the ETL (the sentinel already null)
Fatals == {NaN, 2}

CrashTypeCols == <<"crash_id", "Number Fatalities">>

CrashTypeTables ==
    {Table(CrashTypeCols,
           [i \in DOMAIN ids |->
               ("crash_id" :> ids[i] @@ "Number Fatalities" :> fs[i])]) :
        <<ids, fs>> \in
            {p \in SeqsOf(FactCrashIds, 1, MaxCrash) \X SeqsOf(Fatals, 1, MaxCrash) :
                Len(p[1]) = Len(p[2]) /\ Distinct(p[1])}}

DriverTables ==
    {Table(<<"driver_id", "crash_id">>,
           [i \in DOMAIN cs |-> [driver_id |-> i, crash_id |-> cs[i]]]) :
        cs \in SeqsOf({Str(201011), Str(201121)}, 0, MaxDriver)}

LocationTables ==
    {Table(<<"location_id", "state">>,
           [i \in DOMAIN ss |-> [location_id |-> i, state |-> ss[i]]]) :
        ss \in SeqsOf({"NSW", "VIC"}, 0, MaxLoc)}

PopulationTables ==
    {Table(<<"population_id", "state", "year">>,
           [i \in DOMAIN ks |->
               [population_id |-> i, state |-> ks[i][1], year |-> ks[i][2]]]) :
        ks \in SeqsOf({<<"NSW", 2010>>}, 0, MaxPop)}

SeasonKeys == {<<2010, 1>>, <<2010, 2>>}

\* season_dimension.csv as the ETL writes it, and one file lacking the Month column
SeasonTables ==
    {Table(SeasonCols, [i \in DOMAIN ks |-> SeasonRow(ks[i][1], ks[i][2])]) :
        ks \in {k \in SeqsOf(SeasonKeys, 0, MaxSeason) : Distinct(k)}}
    \cup {Table(<<"Year", "Season_ID">>, <<>>)}

EmptyTable == Table(<<"crash_id">>, <<>>)

AllFiles == DimensionFiles \cup {"time_dimension", "fact_table", "driver_dimension_backup"}

\* output/ holding dimension tables with the columns the fact assembler reads
InitFact ==
    /\ pc = "fct_start"
    /\ ret = "none"
    /\ data = <<>>
    /\ mem = <<>>
    /\ runs = <<>>
    /\ \E ct \in CrashTypeTables, dr \in DriverTables, lo \in LocationTables,
          po \in PopulationTables, se \in SeasonTables :
          output = [f \in AllFiles |->
                      CASE f = "crash_type_dimension" -> ct
                        [] f = "driver_dimension" -> dr
                        [] f = "location_dimension" -> lo
                        [] f = "population_dimension" -> po
                        [] f = "season_dimension" -> se
                        [] f \in AllFiles \ DimensionFiles -> NoFile
                        [] OTHER -> EmptyTable]

NextFact == create_fact_table

SpecFact == InitFact /\ [][NextFact]_vars

(***************************************************************************)
(* Properties of the fact assembler                                        *)
(***************************************************************************)
FactWritten == pc = "fct_done" /\ ret = "True"

WrittenFact == output["fact_table"].rows

CrashTypeDim == output["crash_type_dimension"].rows

DriverDim == output["driver_dimension"].rows

RowsOfCrash(rows, crash_id) == {j \in DOMAIN rows : rows[j].crash_id = crash_id}

\* C1: the written fact table holds exactly one row for every crash identifier
\* of the crash-level projection, whatever the Location and Population
\* dimensions hold
C1_OneRowPerCrash ==
    FactWritten =>
        \A i \in DOMAIN CrashTypeDim :
            Cardinality(RowsOfCrash(WrittenFact, CrashTypeDim[i].crash_id)) = 1

\* C2: on every written fact row, driver_count is the number of Driver rows
\* with the row's crash_id (0 when there is none)
C2_DriverCount ==
    FactWritten =>
        \A j \in DOMAIN WrittenFact :
            WrittenFact[j].driver_count =
                Cardinality(RowsOfCrash(DriverDim, WrittenFact[j].crash_id))

\* a written fact table with a crash of two drivers and a crash of none
C2_Witness ==
    /\ FactWritten
    /\ \E j, k \in DOMAIN WrittenFact :
          /\ WrittenFact[j].driver_count = 2
          /\ WrittenFact[k].driver_count = 0
          /\ WrittenFact[j].crash_id # WrittenFact[k].crash_id

CrashesOfYear(year) ==
    {i \in DOMAIN CrashTypeDim : DecodeYear(CrashTypeDim[i].crash_id) = year}

FatalitiesOf(crashes) ==
    SumSeq([i \in DOMAIN CrashTypeDim |->
               IF i \in crashes /\ CrashTypeDim[i]["Number Fatalities"] # NaN
               THEN CrashTypeDim[i]["Number Fatalities"] ELSE 0])

\* C3: on every written fact row, yearly_crash_count is the number of crashes
\* of the row's year and yearly_fatality_count the sum of their fatalities,
\* each crash counted once
C3_YearlyAggregates ==
    FactWritten =>
        \A j \in DOMAIN WrittenFact :
            LET crashes == CrashesOfYear(DecodeYear(WrittenFact[j].crash_id))
            IN  /\ WrittenFact[j].yearly_crash_count = Cardinality(crashes)
                /\ WrittenFact[j].yearly_fatality_count = FatalitiesOf(crashes)

(***************************************************************************)
(* Raw inputs of the ETL                                                   *)
(***************************************************************************)
MaxRaw == 2

NSW == states[1]
Vic == states[2]

\* one record of bitre_fatal_crash.csv (the columns the model carries)
RawCrash(id, year, month, fatal, area) ==
    ("Crash ID" :> id @@ "State" :> "NSW" @@ "Month" :> month @@ "Year" :> year
     @@ "Number Fatalities" :> fatal
     @@ "National Remoteness Areas" :> area
     @@ "National LGA Name 2021" :> NaNText
     @@ "Bus Involvement" :> 0
     @@ "Heavy Rigid Truck Involvement" :> 0
     @@ "Articulated Truck Involvement" :> 0)

\* one record of bitre_fatalities.csv
RawFatality(id, year, age, age_group) ==
    ("Crash ID" :> id @@ "Year" :> year @@ "Age" :> age @@ "Age Group" :> age_group)

\* the year prefix of an identifier is not tied to the Year column by the code
RawCrashIds == {Str(200011), Str(200112), Str(202313)}

RawYears == {2000, 2001, 2023, 2024}

RawMonths == {1, 2, 4}

RawFatals == {Sentinel, 2}

\* crash tables of 1..MaxRaw records with distinct identifiers
CrashTablesOf(years, months, fatals) ==
    {[i \in DOMAIN ids |-> RawCrash(ids[i], cells[i][1], cells[i][2], cells[i][3],
                                    RefAreaName(Remote, NSW))] :
        <<ids, cells>> \in
            {p \in SeqsOf(RawCrashIds, 1, MaxRaw)
                      \X SeqsOf(years \X months \X fatals, 1, MaxRaw) :
                Len(p[1]) = Len(p[2]) /\ Distinct(p[1])}}

RawCrashTables == CrashTablesOf(RawYears, RawMonths, RawFatals)

\* one person killed per crash record, of known age
OneFatalityEach(crash_rows) ==
    [i \in 1..Len(crash_rows) |->
        RawFatality(crash_rows[i]["Crash ID"], crash_rows[i]["Year"], 30, "26_to_39")]

DefaultRemoteness == <<RefRow(NSW, Remote, 100), RefRow(NSW, VeryRemote, 200)>>

NoOutput == [f \in AllFiles |-> NoFile]

\* raw crash tables of every mix of years, months and fatality counts
InitEtl ==
    /\ pc = "etl_start"
    /\ ret = "none"
    /\ mem = <<>>
    /\ runs = <<>>
    /\ output = NoOutput
    /\ \E crashes \in RawCrashTables :
          data = [fatal_crash |-> crashes, fatalities |-> OneFatalityEach(crashes),
                  remoteness_df |-> DefaultRemoteness, lga_df |-> <<>>, missing |-> {}]

NextEtl == etl

SpecEtl == InitEtl /\ [][NextEtl]_vars

(***************************************************************************)
(* Properties of the ETL                                                   *)
(***************************************************************************)
EtlDone == pc = "etl_done"

EtlFact == output["fact_table"].rows

\* the raw crashes inside the year window that fall in (year, month)
RawOfMonth(year, month) ==
    {i \in DOMAIN data.fatal_crash :
        /\ data.fatal_crash[i]["Year"] \in MinYear..MaxYear
        /\ data.fatal_crash[i]["Year"] = year
        /\ data.fatal_crash[i]["Month"] = month}

RawFatalities(crashes) ==
    SumSeq([i \in DOMAIN data.fatal_crash |->
               IF i \in crashes /\ data.fatal_crash[i]["Number Fatalities"] # Sentinel
               THEN data.fatal_crash[i]["Number Fatalities"] ELSE 0])

\* C4: on every row of the ETL's fact table, Monthly_Crash_Count is the number
\* of crashes of the year-filtered set in the row's (year, month) and
\* Monthly_Fatality_Count the sum of their non-missing fatality counts
C4_MonthlyAggregates ==
    EtlDone =>
        \A j \in DOMAIN EtlFact :
            LET crashes == RawOfMonth(EtlFact[j]["Year"], EtlFact[j]["Month"])
            IN  /\ EtlFact[j]["Monthly_Crash_Count"] = Cardinality(crashes)
                /\ EtlFact[j]["Monthly_Fatality_Count"] = RawFatalities(crashes)

\* two crashes of one month inside the window, one of them with the sentinel
\* for its fatality count
C4_Witness ==
    /\ EtlDone
    /\ \E j \in DOMAIN EtlFact :
          /\ EtlFact[j]["Monthly_Crash_Count"] = 2
          /\ EtlFact[j]["Monthly_Fatality_Count"] = 2

YearTables == {"time_dimension", "season_dimension", "fact_table"}

\* every persisted row that carries a Year has it inside 2001..2023
YearColumnsInWindow ==
    \A f \in YearTables :
        \A j \in DOMAIN output[f].rows : InWindow(output[f].rows[j]["Year"])

\* the year the fact assembler decodes from every persisted crash identifier
\* lies inside 2001..2023
DecodedYearsInWindow ==
    \A j \in DOMAIN output["crash_type_dimension"].rows :
        LET id == output["crash_type_dimension"].rows[j]["Crash ID"]
        IN  YearDecodable(id) /\ InWindow(DecodeYear(id))

\* C8: every persisted row that carries or derives a year has 2001 <= year <=
\* 2023, the year decoded from the first four characters of crash_id included
C8_YearWindow == YearColumnsInWindow /\ DecodedYearsInWindow

SeasonDim == output["season_dimension"].rows

\* C9: no two rows of the Season dimension carry the same season_id, and no
\* two the same time_id
C9_SeasonKeysUnique ==
    \A i, j \in DOMAIN SeasonDim :
        i # j =>
            /\ SeasonDim[i].Season_ID # SeasonDim[j].Season_ID
            /\ TimeId(SeasonDim[i].Year, SeasonDim[i].Month)
                   # TimeId(SeasonDim[j].Year, SeasonDim[j].Month)

(***************************************************************************)
(* Remoteness matching: inputs and properties                              *)
(***************************************************************************)
MaxRef == 2
MaxArea == 2

RefRows ==
    {RefRow(NSW, Remote, 100), RefRow(NSW, VeryRemote, 200),
     RefRow(Vic, Remote, 300), RefRow(NSW, MajorCities, 400)}

\* reference tables: the rows in every order
RefTables == {t \in SeqsOf(RefRows, 0, MaxRef) : Distinct(t)}

\* 'Very Remote NSW': two categories and a jurisdiction code, no reference name
VeryRemoteNSW == VeryRemote \o <<" ">> \o NSW

\* 'Very Remote NSW Remote Australia (NSW)': as above, followed by a reference name
VeryRemoteNSWThenRemote == VeryRemoteNSW \o <<" ">> \o RefAreaName(Remote, NSW)

\* area names of the crash data: two that equal a reference name, one that only
\* holds a category and a jurisdiction code, one that holds two categories and
\* a code, one that holds these and a reference name, one without a code, and null
AreaNames ==
    {RefAreaName(VeryRemote, NSW), RefAreaName(Remote, NSW),
     Remote \o <<" ">> \o NSW, VeryRemote \o <<" ", "A", "u", "s", "t", "r", "a", "l", "i", "a">>, NaNText,
     VeryRemoteNSW, VeryRemoteNSWThenRemote}

AreaCrashIds == <<Str(201011), Str(201012), Str(201013)>>

AreaCrashTables ==
    {[i \in DOMAIN areas |-> RawCrash(AreaCrashIds[i], 2010, 1, 1, areas[i])] :
        areas \in SeqsOf(AreaNames, 1, MaxArea)}

InitMatch ==
    /\ pc = "etl_start"
    /\ ret = "none"
    /\ mem = <<>>
    /\ runs = <<>>
    /\ output = NoOutput
    /\ \E crashes \in AreaCrashTables, refs \in RefTables :
          data = [fatal_crash |-> crashes, fatalities |-> OneFatalityEach(crashes),
                  remoteness_df |-> refs, lga_df |-> <<>>, missing |-> {}]

SpecMatch == InitMatch /\ [][NextEtl]_vars

PopulationWritten == output["population_dimension"].exists

PopulationDim == output["population_dimension"].rows

\* C5: when a reference name equals the area name, the area's population is
\* that of the equal reference row, whatever reference names are substrings of
\* the area name and whatever the order of the reference rows
C5_ExactMatchWins ==
    PopulationWritten =>
        \A j \in DOMAIN PopulationDim :
            \A k \in DOMAIN data.remoteness_df :
                data.remoteness_df[k].Remoteness_Area = PopulationDim[j]["Remoteness Area"]
                    => PopulationDim[j]["Population"] = data.remoteness_df[k].Population

AreasOfCrashes ==
    {mem.fatal_crash[i]["National Remoteness Areas"] : i \in DOMAIN mem.fatal_crash}
        \ {NaNText}

\* C6: every distinct area name of the filtered crash data has exactly one
\* Population entry, and every entry is either 'Reference Data' with a
\* population or 'Derived' with none
C6_OneEntryPerArea ==
    PopulationWritten =>
        /\ \A a \in AreasOfCrashes :
              Cardinality({j \in DOMAIN PopulationDim :
                              PopulationDim[j]["Remoteness Area"] = a}) = 1
        /\ \A j \in DOMAIN PopulationDim :
              \/ /\ PopulationDim[j]["Data Source"] = "Reference Data"
                 /\ PopulationDim[j]["Population"] # NaN
              \/ /\ PopulationDim[j]["Data Source"] = "Derived"
                 /\ PopulationDim[j]["Population"] = NaN

\* a matched and an unmatched area in one Population dimension
C6_Witness ==
    /\ PopulationWritten
    /\ \E j, k \in DOMAIN PopulationDim :
          /\ PopulationDim[j]["Data Source"] = "Reference Data"
          /\ PopulationDim[k]["Data Source"] = "Derived"

(***************************************************************************)
(* Vehicle classification: inputs and property                             *)
(***************************************************************************)
MaxVehicle == 2

\* an involvement flag as persisted: 0, 1 or null
FlagValues == {0, 1, NaN}

VehicleRow(id, bus, heavy, articulated) ==
    ("Crash ID" :> id @@ "Bus Involvement" :> bus
     @@ "Heavy Rigid Truck Involvement" :> heavy
     @@ "Articulated Truck Involvement" :> articulated)

VehicleTables ==
    {Table(VehicleCols,
           [i \in DOMAIN fs |-> VehicleRow(AreaCrashIds[i], fs[i][1], fs[i][2], fs[i][3])]) :
        fs \in SeqsOf(FlagValues \X FlagValues \X FlagValues, 1, MaxVehicle)}

InitVehicle ==
    /\ pc = "am_start"
    /\ ret = "none"
    /\ mem = <<>>
    /\ runs = <<>>
    /\ data = <<>>
    /\ \E v \in VehicleTables :
          output = [NoOutput EXCEPT !["vehicle_dimension"] = v]

NextVehicle == am_classify

SpecVehicle == InitVehicle /\ [][NextVehicle]_vars

Classified == pc = "am_classified"

Set(row, col) == row[col] = 1

\* C10: every crash gets exactly one category, that of the first flag set in
\* the order Articulated Truck, Heavy Rigid Truck, Bus, and Other when none is
C10_VehiclePriority ==
    Classified =>
        \A i \in DOMAIN mem.vehicle_df :
            LET row == mem.vehicle_df[i]
                art == Set(row, "Articulated Truck Involvement")
                heavy == Set(row, "Heavy Rigid Truck Involvement")
                bus == Set(row, "Bus Involvement")
            IN  /\ art => row.vehicle_type = "Articulated Truck"
                /\ (~art /\ heavy) => row.vehicle_type = "Heavy Rigid Truck"
                /\ (~art /\ ~heavy /\ bus) => row.vehicle_type = "Bus"
                /\ (~art /\ ~heavy /\ ~bus) => row.vehicle_type = "Other"

\* a classified crash with the articulated-truck and the bus flag both set
C10_Witness ==
    /\ Classified
    /\ \E i \in DOMAIN mem.vehicle_df :
          /\ Set(mem.vehicle_df[i], "Articulated Truck Involvement")
          /\ Set(mem.vehicle_df[i], "Bus Involvement")
          /\ mem.vehicle_df[i].vehicle_type = "Articulated Truck"

(***************************************************************************)
(* Two runs of the pipeline: inputs and property                           *)
(***************************************************************************)
PipelineCrashTables == CrashTablesOf({2000, 2010}, {1, 2}, RawFatals)

\* output/ before the first run: empty, or holding files of an earlier use
StaleOutputs ==
    {NoOutput,
     [NoOutput EXCEPT !["lga_dimension"] = EmptyTable,
                      !["fact_table"] = EmptyTable]}

InitPipeline ==
    /\ pc = "etl_start"
    /\ ret = "none"
    /\ mem = <<>>
    /\ runs = <<>>
    /\ output \in StaleOutputs
    /\ \E crashes \in PipelineCrashTables :
          data = [fatal_crash |-> crashes, fatalities |-> OneFatalityEach(crashes),
                  remoteness_df |-> DefaultRemoteness, lga_df |-> <<>>, missing |-> {}]

NextPipeline ==
    \/ etl
    \/ start_fact_assembler
    \/ create_fact_table
    \/ finish_run

SpecPipeline == InitPipeline /\ [][NextPipeline]_vars

MaxFatality == 3

\* ages of the raw fatality records (whole years) and their labels
RawAges == {NaN, 20, 23}

AgeGroups == {"17_to_25", "26_to_39", "Unknown"}

AgeCrashes == <<RawCrash(Str(201011), 2010, 1, 2, NaNText)>>

FatalityTables ==
    {[i \in DOMAIN rs |-> RawFatality(Str(201011), 2010, rs[i][1], rs[i][2])] :
        rs \in SeqsOf(RawAges \X AgeGroups, 1, MaxFatality)}

\* a driver_dimension.csv written without the repair
UnrepairedDriverTables ==
    {Table(DriverCols,
           [i \in DOMAIN f |->
               [Pick(f[i], Range(DriverCols)) EXCEPT !["Age"] = ToAge(@)]]) :
        f \in FatalityTables}

\* either the ETL starts on raw fatality records, or the stand-alone repair
\* starts on a driver dimension holding null ages
InitAge ==
    /\ ret = "none"
    /\ mem = <<>>
    /\ runs = <<>>
    /\ \/ /\ pc = "etl_start"
          /\ output = NoOutput
          /\ \E f \in FatalityTables :
                data = [fatal_crash |-> AgeCrashes, fatalities |-> f,
                        remoteness_df |-> DefaultRemoteness, lga_df |-> <<>>, missing |-> {}]
       \/ /\ pc = "fix_start"
          /\ data = <<>>
          /\ \E t \in UnrepairedDriverTables :
                output = [NoOutput EXCEPT !["driver_dimension"] = t]

NextAge ==
    \/ etl
    \/ fix_driver_age

SpecAge == InitAge /\ [][NextAge]_vars

\* the ages known under a label in a table, in quarter-years
KnownAges(rows, age_group) ==
    SelectSeq(Ages(SelectSeq(rows, LAMBDA r : r["Age Group"] = age_group)),
              LAMBDA a : a # NaN)

\* v is the median of the non-empty sequence s: the middle value, or the
\* mean of the two middle values
IsMedian(v, s) ==
    LET n == Len(s)
        below == {i \in 1..n : s[i] < v}
        above == {i \in 1..n : s[i] > v}
    IN  \/ /\ v \in Range(s)
           /\ 2 * Cardinality(below) < n
           /\ 2 * Cardinality(above) < n
        \/ /\ 2 * Cardinality(below) = n
           /\ 2 * Cardinality(above) = n
           /\ \E i \in below, j \in above :
                 /\ \A k \in below : s[k] <= s[i]
                 /\ \A k \in above : s[j] <= s[k]
                 /\ 2 * v = s[i] + s[j]

KnownLabel(age_group) == age_group \notin {NaNStr, "Unknown", "-9"}

\* `after` holds, for row r of the table before the repair, a row that keeps
\* a known age and carries the median of the label's known ages otherwise
Backfilled(r, before, after) ==
    \E j \in DOMAIN after :
        /\ after[j]["Crash ID"] = r["Crash ID"]
        /\ after[j]["Age Group"] = r["Age Group"]
        /\ r["Age"] # NaN => after[j]["Age"] = r["Age"]
        /\ (/\ r["Age"] = NaN
            /\ KnownLabel(r["Age Group"])
            /\ Len(KnownAges(before, r["Age Group"])) > 0)
           => IsMedian(after[j]["Age"], KnownAges(before, r["Age Group"]))

\* the driver rows before the ETL's repair: the filtered fatality records
EtlDriversBefore ==
    [i \in DOMAIN mem.fatalities |->
        [mem.fatalities[i] EXCEPT !["Age"] = ToAge(@)]]

EtlDriverWritten ==
    pc \in {"etl_time", "etl_population", "etl_crash_type", "etl_season",
            "etl_fact", "etl_done"}

FixRepaired == pc = "fix_done" /\ output["driver_dimension_backup"].exists

\* C11: a driver row with a null age and a known label that has a member of
\* known age receives the median of the ages known under that label before
\* any filling, and a row with a known age keeps it; in the ETL's driver
\* dimension and in the table rewritten by the stand-alone repair
C11_AgeBackfill ==
    /\ EtlDriverWritten =>
          \A i \in DOMAIN EtlDriversBefore :
              Backfilled(EtlDriversBefore[i], EtlDriversBefore, DriverDim)
    /\ FixRepaired =>
          /\ Len(DriverDim) = Len(output["driver_dimension_backup"].rows)
          /\ \A i \in DOMAIN DriverDim :
                Backfilled(output["driver_dimension_backup"].rows[i],
                           output["driver_dimension_backup"].rows,
                           <<DriverDim[i]>>)

\* the stand-alone repair has filled a null age with the mean of the two
\* ages 20 and 23 known under the row's label
C11_Witness ==
    /\ FixRepaired
    /\ \E i \in DOMAIN DriverDim :
          /\ output["driver_dimension_backup"].rows[i]["Age"] = NaN
          /\ output["driver_dimension_backup"].rows[i]["Age Group"] = "17_to_25"
          /\ 2 * DriverDim[i]["Age"] = AgeUnit * (20 + 23)

(***************************************************************************)
(* Integrity auditor: inputs and property                                  *)
(***************************************************************************)
MaxKey == 6

\* a table keyed by crash identifier holding the identifiers of `keys` in
\* increasing order, the smallest one on two rows when `twice`
KeyedTable(keys, twice) ==
    LET RECURSIVE Sorted(_)
        Sorted(S) == IF S = {} THEN <<>>
                     ELSE LET m == CHOOSE x \in S : \A y \in S : x <= y
                          IN  <<m>> \o Sorted(S \ {m})
        ids == Sorted(keys)
        all == IF twice /\ keys # {} THEN <<ids[1]>> \o ids ELSE ids
    IN  Table(<<"Crash ID">>, [i \in DOMAIN all |-> ("Crash ID" :> all[i])])

\* output/ as audited: any location dimension and any fact table over the
\* identifiers 1..MaxKey, complete other dimensions, or no fact table at all
InitAudit ==
    /\ pc = "dq_start"
    /\ ret = "none"
    /\ mem = <<>>
    /\ runs = <<>>
    /\ data = <<>>
    /\ \E d \in SUBSET (1..MaxKey), f \in SUBSET (1..MaxKey), twice \in BOOLEAN,
          present \in BOOLEAN :
          output = [file \in AllFiles |->
                      CASE file = "location_dimension" -> KeyedTable(d, FALSE)
                        [] file = "fact_table" ->
                              IF present THEN KeyedTable(f, twice) ELSE NoFile
                        [] file = "driver_dimension_backup" -> NoFile
                        [] OTHER -> KeyedTable(1..(MaxKey - 1), FALSE)]

NextAudit ==
    \/ dq_load
    \/ dq_integrity

SpecAudit == InitAudit /\ [][NextAudit]_vars

Audited == pc = "dq_done"

\* the distinct keys of the fact table that no row of the dimension carries
Orphans(dimension, fact) ==
    {k \in {fact[i]["Crash ID"] : i \in DOMAIN fact} :
        \A j \in DOMAIN dimension : dimension[j]["Crash ID"] # k}

AuditedDimensions == <<"location_dimension", "vehicle_dimension",
                       "time_dimension", "crash_type_dimension">>

\* C12: each report gives as orphan count the number of distinct fact keys
\* absent from the dimension and a sample of at most 5 of them
C12_OrphanCount ==
    Audited =>
        \A c \in 1..4 :
            LET orphans == Orphans(output[AuditedDimensions[c]].rows,
                                   output["fact_table"].rows)
            IN  /\ ret[c].orphaned = Cardinality(orphans)
                /\ ret[c].sample \subseteq orphans
                /\ Cardinality(ret[c].sample) <= 5
                /\ Cardinality(orphans) = 1 => ret[c].orphaned = 1

\* C12: the audit changes no table of output/
C12_TablesUnchanged == [][NextAudit => output' = output]_vars

\* C12: orphan count and sample are right, and no table is changed
C12_ReferentialIntegrity == []C12_OrphanCount /\ C12_TablesUnchanged

\* one fact key, on two rows, has no location row while other fact keys have
C12_Witness ==
    /\ Audited
    /\ ret[1].orphaned = 1
    /\ Len(output["fact_table"].rows) >= 3
    /\ output["fact_table"].rows[1] = output["fact_table"].rows[2]
    /\ output["fact_table"].rows[1]["Crash ID"] \in ret[1].sample

\* six fact keys without a location row: the sample lists five of them
C12_WitnessSample ==
    /\ Audited
    /\ ret[1].orphaned = 6
    /\ Cardinality(ret[1].sample) = 5

(***************************************************************************)
(* The extractors' files as the fact assembler reads them                  *)
(***************************************************************************)
CrashKeyedFiles == {"location_dimension", "vehicle_dimension",
                    "road_condition_dimension", "driver_dimension",
                    "time_dimension", "crash_type_dimension"}

\* C13: every crash-keyed dimension file the ETL has written shows a column
\* named crash_id once its header is lowercased by the assembler's loader
C13_CrashIdExposed ==
    \A f \in CrashKeyedFiles :
        output[f].exists => HasCols(ReadCsv(output[f]), {"crash_id"})

(***************************************************************************)
(* Fatality records against the filtered crash set: inputs and property    *)
(***************************************************************************)
\* crashes of a year before the window and of a year inside it, and fatality
\* records whose own year and crash identifier vary independently
InitFatalities ==
    /\ pc = "etl_start"
    /\ ret = "none"
    /\ mem = <<>>
    /\ runs = <<>>
    /\ output = NoOutput
    /\ \E ys \in SeqsOf({2000, 2010}, 1, MaxRaw),
          fs \in SeqsOf({AreaCrashIds[k] : k \in 1..3} \X {2000, 2010}, 0, MaxFatality) :
          data = [fatal_crash |->
                     [i \in DOMAIN ys |-> RawCrash(AreaCrashIds[i], ys[i], 1, 2, NaNText)],
                  fatalities |->
                     [i \in DOMAIN fs |-> RawFatality(fs[i][1], fs[i][2], 30, "26_to_39")],
                  remoteness_df |-> DefaultRemoteness, lga_df |-> <<>>, missing |-> {}]

SpecFatalities == InitFatalities /\ [][NextEtl]_vars

\* the raw crash records carrying identifier id whose year is in the window
SurvivingCrashes(id) ==
    {i \in DOMAIN data.fatal_crash :
        /\ data.fatal_crash[i]["Crash ID"] = id
        /\ data.fatal_crash[i]["Year"] >= 2001
        /\ data.fatal_crash[i]["Year"] <= 2023}

\* C14: every crash identifier of the Driver dimension is that of a crash
\* record inside 2001..2023
C14_DriversOfFilteredCrashes ==
    EtlDriverWritten =>
        \A j \in DOMAIN DriverDim : SurvivingCrashes(DriverDim[j]["Crash ID"]) # {}

\* a fatality record of 2010 whose crash is of 2000 has no Driver row, while
\* the Driver dimension holds the driver of another crash
C14_Witness ==
    /\ EtlDriverWritten
    /\ Len(DriverDim) > 0
    /\ \E k \in DOMAIN data.fatalities :
          /\ data.fatalities[k]["Year"] = 2010
          /\ \E i \in DOMAIN data.fatal_crash :
                /\ data.fatal_crash[i]["Crash ID"] = data.fatalities[k]["Crash ID"]
                /\ data.fatal_crash[i]["Year"] = 2000
          /\ \A j \in DOMAIN DriverDim :
                DriverDim[j]["Crash ID"] # data.fatalities[k]["Crash ID"]

(***************************************************************************)
(* Missing input files: inputs and property                                *)
(***************************************************************************)
\* data/ with any of the six input files missing or unreadable; output/ empty
\* or holding files of an earlier use
InitLoad ==
    /\ pc = "etl_start"
    /\ ret = "none"
    /\ mem = <<>>
    /\ runs = <<>>
    /\ output \in StaleOutputs
    /\ \E crashes \in CrashTablesOf({2010}, {1}, {2}), gone \in SUBSET InputFiles :
          data = [fatal_crash |-> crashes, fatalities |-> OneFatalityEach(crashes),
                  remoteness_df |-> DefaultRemoteness, lga_df |-> <<>>,
                  missing |-> gone]

SpecLoad == InitLoad /\ [][NextEtl]_vars

\* C15: when an input file is missing or unreadable the run stops in the load
\* and no step of it creates or changes a file of output/
C15_AbortBeforeOutput ==
    /\ [](data.missing # {} => pc \in {"etl_start", "etl_exit"})
    /\ [][data.missing # {} => output' = output]_vars

\* the run has stopped on a missing remoteness reference file and the fact
\* table of an earlier use is still there
C15_Witness ==
    /\ pc = "etl_exit"
    /\ data.missing = {"remoteness_areas"}
    /\ output["fact_table"].exists

(***************************************************************************)
(* Failing runs of the fact assembler: inputs and property                 *)
(***************************************************************************)
\* a crash identifier whose first four characters are not a number
BadCrashId == <<"2", "0", "x", "0", "1", "1">>

\* a fault and, for a missing file, the file
Faults == {<<k, "">> : k \in {"none", "no crash_id column", "no month column",
                              "bad crash id"}}
          \cup {<<"missing", f>> : f \in DimensionFiles}

\* the crash-type file as changed by a fault
FaultyCrashType(ct, fault) ==
    CASE fault[1] = "no crash_id column" ->
            Table(<<"Number Fatalities">>,
                  [i \in DOMAIN ct.rows |->
                      ("Number Fatalities" :> ct.rows[i]["Number Fatalities"])])
      [] fault[1] = "bad crash id" ->
            [ct EXCEPT !.rows[1]["crash_id"] = BadCrashId]
      [] OTHER -> ct

\* output/ with dimension files sound or faulty in one way, and with or
\* without a fact table of an earlier run
InitFailure ==
    /\ pc = "fct_start"
    /\ ret = "none"
    /\ data = <<>>
    /\ mem = <<>>
    /\ runs = <<>>
    /\ \E ct \in CrashTypeTables, fault \in Faults, stale \in BOOLEAN :
          output = [f \in AllFiles |->
                      CASE fault = <<"missing", f>> -> NoFile
                        [] f = "crash_type_dimension" -> FaultyCrashType(ct, fault)
                        [] f = "driver_dimension" -> Table(<<"driver_id", "crash_id">>, <<>>)
                        [] f = "location_dimension" -> Table(<<"location_id", "state">>, <<>>)
                        [] f = "population_dimension" ->
                              Table(<<"population_id", "state", "year">>, <<>>)
                        [] f = "season_dimension" ->
                              IF fault[1] = "no month column"
                              THEN Table(<<"Year", "Season_ID">>, <<>>)
                              ELSE Table(SeasonCols, <<SeasonRow(2010, 1)>>)
                        [] f = "fact_table" ->
                              IF stale THEN Table(<<"fact_id">>, <<[fact_id |-> 1]>>)
                              ELSE NoFile
                        [] f \in DimensionFiles -> EmptyTable
                        [] OTHER -> NoFile]

SpecFailure == InitFailure /\ [][NextFact]_vars

\* a dimension file is missing, the crash-type file has no crash_id column or
\* a crash identifier without a numeric year, or the season file no month
Faulty ==
    \/ \E f \in DimensionFiles : ~output[f].exists
    \/ \A i \in DOMAIN output["crash_type_dimension"].cols :
          output["crash_type_dimension"].cols[i] # "crash_id"
    \/ \E i \in DOMAIN output["crash_type_dimension"].rows :
          \E k \in 1..4 :
              output["crash_type_dimension"].rows[i]["crash_id"][k] \notin
                  {"0", "1", "2", "3", "4", "5", "6", "7", "8", "9"}
    \/ \A i \in DOMAIN output["season_dimension"].cols :
          output["season_dimension"].cols[i] \notin {"Month", "month"}

\* C16: a call on faulty files returns False and changes no file, and the
\* fact table changes only in a call that returns True
C16_FailureLeavesFactTable ==
    [][/\ Faulty => (ret' = "False" /\ output' = output)
       /\ output' # output => ret' = "True"]_vars

\* a call has returned False on a missing lga_dimension.csv and the fact
\* table of the earlier run is still in place
C16_Witness ==
    /\ pc = "fct_done"
    /\ ret = "False"
    /\ ~output["lga_dimension"].exists
    /\ output["fact_table"] = Table(<<"fact_id">>, <<[fact_id |-> 1]>>)

(***************************************************************************)
(* The missing-value sentinel in fatality counts: inputs and property      *)
(***************************************************************************)
\* either the ETL starts on raw crashes whose fatality count may be -9, or
\* the fact assembler starts on a crash-type file in which it is null
InitSentinel ==
    /\ ret = "none"
    /\ mem = <<>>
    /\ runs = <<>>
    /\ \/ /\ pc = "etl_start"
          /\ output = NoOutput
          /\ \E crashes \in CrashTablesOf({2010}, {1, 2}, RawFatals) :
                data = [fatal_crash |-> crashes,
                        fatalities |-> OneFatalityEach(crashes),
                        remoteness_df |-> DefaultRemoteness, lga_df |-> <<>>,
                        missing |-> {}]
       \/ /\ pc = "fct_start"
          /\ data = <<>>
          /\ \E ct \in CrashTypeTables, lo \in LocationTables :
                output = [f \in AllFiles |->
                            CASE f = "crash_type_dimension" -> ct
                              [] f = "driver_dimension" ->
                                    Table(<<"driver_id", "crash_id">>, <<>>)
                              [] f = "location_dimension" -> lo
                              [] f = "population_dimension" ->
                                    Table(<<"population_id", "state", "year">>, <<>>)
                              [] f = "season_dimension" ->
                                    Table(SeasonCols, <<SeasonRow(2010, 1)>>)
                              [] f \in DimensionFiles -> EmptyTable
                              [] OTHER -> NoFile]

NextSentinel ==
    \/ etl
    \/ create_fact_table

SpecSentinel == InitSentinel /\ [][NextSentinel]_vars

\* the raw crash records carrying identifier id
RawOfId(id) == {i \in DOMAIN data.fatal_crash : data.fatal_crash[i]["Crash ID"] = id}

\* row r of an ETL table holds null for a raw count of -9 and the raw count
\* otherwise
StoredAsMissing(r) ==
    \A i \in RawOfId(r["Crash ID"]) :
        IF data.fatal_crash[i]["Number Fatalities"] = -9
        THEN r["Number Fatalities"] = NaN
        ELSE r["Number Fatalities"] = data.fatal_crash[i]["Number Fatalities"]

\* C17, ETL: the crash-type dimension and the ETL's fact table hold null where
\* the raw fatality count is -9, and the monthly sum leaves those crashes out
C17_EtlSentinel ==
    /\ (pc \in {"etl_season", "etl_fact", "etl_done"}) =>
          \A j \in DOMAIN output["crash_type_dimension"].rows :
              StoredAsMissing(output["crash_type_dimension"].rows[j])
    /\ EtlDone =>
          \A j \in DOMAIN EtlFact :
              /\ StoredAsMissing(EtlFact[j])
              /\ EtlFact[j]["Monthly_Fatality_Count"] =
                    RawFatalities(RawOfMonth(EtlFact[j]["Year"], EtlFact[j]["Month"]))

\* C17, assembler: a fact row holds null exactly where the crash-type
\* dimension does, never a negative count, and a year all of whose crashes
\* have a null count sums to 0
C17_AssemblerSentinel ==
    FactWritten =>
        \A j \in DOMAIN WrittenFact :
            /\ WrittenFact[j].fatalities = NaN \/ WrittenFact[j].fatalities >= 0
            /\ \A i \in DOMAIN CrashTypeDim :
                  CrashTypeDim[i].crash_id = WrittenFact[j].crash_id =>
                      WrittenFact[j].fatalities = CrashTypeDim[i]["Number Fatalities"]
            /\ WrittenFact[j].yearly_fatality_count >= 0
            /\ (\A i \in CrashesOfYear(DecodeYear(WrittenFact[j].crash_id)) :
                   CrashTypeDim[i]["Number Fatalities"] = NaN)
               => WrittenFact[j].yearly_fatality_count = 0

\* C17: a fatality count of -9 is stored as null in the crash-type dimension
\* and in both fact tables, no stored count is negative, and a null count
\* adds nothing to the monthly and yearly sums
C17_SentinelIsMissing == C17_EtlSentinel /\ C17_AssemblerSentinel

\* the ETL has written a fact row with a null count in a month whose other
\* crash has 2 fatalities, the monthly sum being 2
C17_Witness ==
    /\ EtlDone
    /\ \E j \in DOMAIN EtlFact :
          /\ EtlFact[j]["Number Fatalities"] = NaN
          /\ EtlFact[j]["Monthly_Crash_Count"] = 2
          /\ EtlFact[j]["Monthly_Fatality_Count"] = 2

(***************************************************************************)
(* Duplicate rows: inputs and property                                     *)
(***************************************************************************)
\* location_dimension.csv with one row per crash, naming the crash and the
\* location it happened at: no two rows alike, a location on several rows
CrashLocationTables ==
    {Table(<<"location_id", "crash_id", "state">>,
           [i \in DOMAIN ls |->
               [location_id |-> ls[i][1], crash_id |-> ls[i][2], state |-> "NSW"]]) :
        ls \in {l \in SeqsOf({1, 2} \X {Str(201011), Str(201012)}, 0, MaxLoc) :
                   Distinct(l)}}

InitDuplicates ==
    /\ pc = "fct_start"
    /\ ret = "none"
    /\ data = <<>>
    /\ mem = <<>>
    /\ runs = <<>>
    /\ \E ct \in CrashTypeTables, lo \in CrashLocationTables :
          output = [f \in AllFiles |->
                      CASE f = "crash_type_dimension" -> ct
                        [] f = "driver_dimension" ->
                              Table(<<"driver_id", "crash_id">>, <<>>)
                        [] f = "location_dimension" -> lo
                        [] f = "population_dimension" ->
                              Table(<<"population_id", "state", "year">>, <<>>)
                        [] f = "season_dimension" ->
                              Table(SeasonCols, <<SeasonRow(2010, 1)>>)
                        [] f \in DimensionFiles -> EmptyTable
                        [] OTHER -> NoFile]

SpecDuplicates == InitDuplicates /\ [][NextFact]_vars

\* C18: no file of output/ holds two rows alike in every column
C18_NoDuplicateRows ==
    \A f \in AllFiles : output[f].exists => Distinct(output[f].rows)

(***************************************************************************)
(* The surrogate key of the assembled fact table                           *)
(***************************************************************************)
\* C19: in the written fact table the fact_id of the j-th row is j, so the
\* values are 1..N, each once, in row order
C19_DenseFactId ==
    FactWritten => \A j \in DOMAIN WrittenFact : WrittenFact[j].fact_id = j

(***************************************************************************)
(* Season lookup of the fact assembler: inputs and property                *)
(***************************************************************************)
\* time_dimension.csv: the month and year of every crash of the crash-type file
TimeTable(ct, months) ==
    Table(<<"crash_id", "month", "year">>,
          [i \in DOMAIN ct.rows |->
              [crash_id |-> ct.rows[i].crash_id, month |-> months[i],
               year |-> DecodeYear(ct.rows[i].crash_id)]])

InitSeason ==
    /\ pc = "fct_start"
    /\ ret = "none"
    /\ data = <<>>
    /\ mem = <<>>
    /\ runs = <<>>
    /\ \E ct \in CrashTypeTables, months \in [1..MaxCrash -> {1, 2}],
          ks \in {k \in SeqsOf(SeasonKeys, 0, MaxSeason) : Distinct(k)} :
          output = [f \in AllFiles |->
                      CASE f = "crash_type_dimension" -> ct
                        [] f = "time_dimension" -> TimeTable(ct, months)
                        [] f = "driver_dimension" ->
                              Table(<<"driver_id", "crash_id">>, <<>>)
                        [] f = "location_dimension" ->
                              Table(<<"location_id", "state">>, <<>>)
                        [] f = "population_dimension" ->
                              Table(<<"population_id", "state", "year">>, <<>>)
                        [] f = "season_dimension" ->
                              Table(SeasonCols,
                                    [i \in DOMAIN ks |-> SeasonRow(ks[i][1], ks[i][2])])
                        [] f \in DimensionFiles -> EmptyTable
                        [] OTHER -> NoFile]

SpecSeason == InitSeason /\ [][NextFact]_vars

\* C20: a fact row whose crash has a Season row for its year and month
\* carries the time_id (year and two-digit month) and the season_id of that row
C20_SeasonByYearMonth ==
    FactWritten =>
        \A j \in DOMAIN WrittenFact :
            \A t \in DOMAIN output["time_dimension"].rows :
                \A k \in DOMAIN output["season_dimension"].rows :
                    LET crash == output["time_dimension"].rows[t]
                        season == output["season_dimension"].rows[k]
                    IN  (/\ crash.crash_id = WrittenFact[j].crash_id
                         /\ season["Year"] = crash.year
                         /\ season["Month"] = crash.month)
                        => /\ WrittenFact[j].time_id = 100 * crash.year + crash.month
                           /\ WrittenFact[j].season_id = season["Season_ID"]

(***************************************************************************)
(* Age fallback: inputs and properties                                     *)
(***************************************************************************)
MaxRepair == 4

\* the labels the repair tells apart: two regular ones, 'Unknown', '-9', null
RepairLabels == <<"17_to_25", "26_to_39", "Unknown", "-9", NaNStr>>

RepairAgeValues == <<NaN, 20, 23>>

\* the k-th (age, label) pair
RepairCell(k) ==
    <<RepairAgeValues[((k - 1) % Len(RepairAgeValues)) + 1],
      RepairLabels[((k - 1) \div Len(RepairAgeValues)) + 1]>>

\* fatality records of one crash: every multiset of 1..MaxRepair pairs
RepairFatalities ==
    {[i \in DOMAIN ks |->
        RawFatality(Str(201011), 2010, RepairCell(ks[i])[1], RepairCell(ks[i])[2])] :
        ks \in {s \in SeqsOf(1..(Len(RepairAgeValues) * Len(RepairLabels)), 1, MaxRepair) :
                   \A i \in 1..(Len(s) - 1) : s[i] <= s[i + 1]}}

UnrepairedRepairTables ==
    {Table(DriverCols,
           [i \in DOMAIN f |->
               [Pick(f[i], Range(DriverCols)) EXCEPT !["Age"] = ToAge(@)]]) :
        f \in RepairFatalities}

InitFallback ==
    /\ ret = "none"
    /\ mem = <<>>
    /\ runs = <<>>
    /\ \/ /\ pc = "etl_start"
          /\ output = NoOutput
          /\ \E f \in RepairFatalities :
                data = [fatal_crash |-> AgeCrashes, fatalities |-> f,
                        remoteness_df |-> DefaultRemoteness, lga_df |-> <<>>, missing |-> {}]
       \/ /\ pc = "fix_start"
          /\ data = <<>>
          /\ \E t \in UnrepairedRepairTables :
                output = [NoOutput EXCEPT !["driver_dimension"] = t]

SpecFallback == InitFallback /\ [][NextAge]_vars

\* the ages known anywhere in a table
AllKnownAges(rows) == SelectSeq(Ages(rows), LAMBDA a : a # NaN)

\* row r has a null age and a label that names no group of known age: null,
\* 'Unknown', or a label none of whose rows has a known age
FallsBack(r, before) ==
    /\ r["Age"] = NaN
    /\ \/ r["Age Group"] \in {NaNStr, "Unknown"}
       \/ Len(KnownAges(before, r["Age Group"])) = 0

\* some row of `after` carries r's crash and label with the median of the
\* ages known in `before`
GlobalMedianFilled(r, before, after) ==
    \E j \in DOMAIN after :
        /\ after[j]["Crash ID"] = r["Crash ID"]
        /\ after[j]["Age Group"] = r["Age Group"]
        /\ IsMedian(after[j]["Age"], AllKnownAges(before))

\* C21: a driver row with a null age whose label is null, 'Unknown' or a
\* label without any known age receives the median of the ages known in the
\* dimension before any filling, in the ETL and in the stand-alone repair
C21_PreFillGlobalMedian ==
    /\ EtlDriverWritten =>
          \A i \in DOMAIN EtlDriversBefore :
              (/\ FallsBack(EtlDriversBefore[i], EtlDriversBefore)
               /\ Len(AllKnownAges(EtlDriversBefore)) > 0)
              => GlobalMedianFilled(EtlDriversBefore[i], EtlDriversBefore, DriverDim)
    /\ FixRepaired =>
          \A i \in DOMAIN DriverDim :
              (/\ FallsBack(output["driver_dimension_backup"].rows[i],
                            output["driver_dimension_backup"].rows)
               /\ Len(AllKnownAges(output["driver_dimension_backup"].rows)) > 0)
              => GlobalMedianFilled(output["driver_dimension_backup"].rows[i],
                                    output["driver_dimension_backup"].rows,
                                    <<DriverDim[i]>>)

\* C21 for the ETL alone
C21_EtlPreFillGlobalMedian ==
    EtlDriverWritten =>
        \A i \in DOMAIN EtlDriversBefore :
            (/\ FallsBack(EtlDriversBefore[i], EtlDriversBefore)
             /\ Len(AllKnownAges(EtlDriversBefore)) > 0)
            => GlobalMedianFilled(EtlDriversBefore[i], EtlDriversBefore, DriverDim)

\* C27: after the ETL's age repair no row of the Driver dimension has a null
\* age, provided some fatality record of the filtered set has a known age
C27_NoNullAge ==
    (EtlDriverWritten /\ Len(AllKnownAges(EtlDriversBefore)) > 0)
    => \A i \in DOMAIN DriverDim : DriverDim[i]["Age"] # NaN

\* the ETL has repaired a table holding null ages under a regular label
\* without any known age and under the label '-9', next to one known age
C27_Witness ==
    /\ EtlDriverWritten
    /\ Len(AllKnownAges(EtlDriversBefore)) = 1
    /\ \E i, j \in DOMAIN EtlDriversBefore :
          /\ EtlDriversBefore[i]["Age"] = NaN
          /\ EtlDriversBefore[i]["Age Group"] = "17_to_25"
          /\ Len(KnownAges(EtlDriversBefore, "17_to_25")) = 0
          /\ EtlDriversBefore[j]["Age"] = NaN
          /\ EtlDriversBefore[j]["Age Group"] = "-9"
    /\ \A i \in DOMAIN DriverDim : DriverDim[i]["Age"] # NaN

(***************************************************************************)
(* Crash identifiers that do not decode                                    *)
(***************************************************************************)
\* every file is there with the columns the steps index, and some crash
\* identifier has a prefix that is not a number
OnlyYearUndecodable ==
    /\ \A f \in DimensionFiles : output[f].exists
    /\ LET df == LoadDimensions(output)
       IN  /\ HasCols(df.crash_df, {"crash_id", "fatalities"})
           /\ HasCols(df.season_df, {"month", "year", "season_id"})
           /\ \E i \in DOMAIN df.crash_df.rows :
                 ~YearDecodable(df.crash_df.rows[i].crash_id)

\* C22: a crash identifier whose first four characters are not numeric does
\* not stop the fact assembler: the call returns True and the written fact
\* table holds a row for every crash, that one included
C22_BadYearTolerated ==
    (pc = "fct_done" /\ OnlyYearUndecodable)
    => /\ ret = "True"
       /\ output["fact_table"].cols = columns_order
       /\ \A i \in DOMAIN CrashTypeDim :
             RowsOfCrash(WrittenFact, CrashTypeDim[i].crash_id) # {}

\* crash identifiers of the eight jurisdictions, and four that do not decode
\* to one: 5th character 9, 0 or a letter, and an identifier of 4 characters
DecodeCrashIds ==
    {Str(201001 + 10 * k) : k \in 1..8}
    \cup {Str(201091), Str(201001), <<"2", "0", "1", "0", "x", "1">>, Str(2010)}

DecodeCrashTables ==
    {Table(CrashTypeCols,
           [i \in DOMAIN ids |->
               ("crash_id" :> ids[i] @@ "Number Fatalities" :> 2)]) :
        ids \in {s \in SeqsOf(DecodeCrashIds, 1, MaxCrash) : Distinct(s)}}

\* the jurisdictions in the order of their digit
StateNames == <<"NSW", "VIC", "QLD", "SA", "WA", "TAS", "NT", "ACT">>

\* a location dimension with one row for each jurisdiction from `first` on
StateLocations(first) ==
    Table(<<"location_id", "state">>,
          [i \in 1..(Len(StateNames) - first + 1) |->
              [location_id |-> i, state |-> StateNames[first + i - 1]]])

InitDecode ==
    /\ pc = "fct_start"
    /\ ret = "none"
    /\ data = <<>>
    /\ mem = <<>>
    /\ runs = <<>>
    /\ \E ct \in DecodeCrashTables, po \in PopulationTables,
          first \in {1, 2, Len(StateNames) + 1} :
          output = [f \in AllFiles |->
                      CASE f = "crash_type_dimension" -> ct
                        [] f = "driver_dimension" -> Table(<<"driver_id", "crash_id">>, <<>>)
                        [] f = "location_dimension" -> StateLocations(first)
                        [] f = "population_dimension" -> po
                        [] f = "season_dimension" -> Table(SeasonCols, <<SeasonRow(2010, 1)>>)
                        [] f \in AllFiles \ DimensionFiles -> NoFile
                        [] OTHER -> EmptyTable]

SpecDecode == InitDecode /\ [][NextFact]_vars

\* the identifier's 5th character is one of the digits 1..8
NamesState(crash_id) ==
    /\ Len(crash_id) >= 5
    /\ crash_id[5] \in {"1", "2", "3", "4", "5", "6", "7", "8"}

\* the location_id a crash takes from the location dimension: that of the
\* row of the jurisdiction its 5th character names, null when there is none
ExpectedLocation(crash_id) ==
    LET rows == output["location_dimension"].rows
        named == {k \in DOMAIN rows :
                     /\ NamesState(crash_id)
                     /\ rows[k].state = StateNames[DigitVal(crash_id[5])]}
    IN  IF named = {} THEN {NaN} ELSE {rows[k].location_id : k \in named}

\* C23: the call returns True whatever the 5th characters are; every crash
\* has a fact row; a crash whose 5th character is 1..8 is joined to the
\* location rows of NSW, VIC, QLD, SA, WA, TAS, NT, ACT in that order, and a
\* crash with another 5th character or a shorter identifier to none
C23_StateDecoding ==
    pc = "fct_done" =>
        /\ ret = "True"
        /\ \A i \in DOMAIN CrashTypeDim :
              /\ RowsOfCrash(WrittenFact, CrashTypeDim[i].crash_id) # {}
              /\ {WrittenFact[j].location_id :
                     j \in RowsOfCrash(WrittenFact, CrashTypeDim[i].crash_id)}
                 = ExpectedLocation(CrashTypeDim[i].crash_id)
              /\ ~NamesState(CrashTypeDim[i].crash_id) =>
                    \A j \in RowsOfCrash(WrittenFact, CrashTypeDim[i].crash_id) :
                        WrittenFact[j].population_id = NaN

\* a fact table is written with a row without location for the 4-character
\* identifier 2010 next to a row joined to the location row of the ACT
C23_Witness ==
    /\ FactWritten
    /\ \E i, j \in DOMAIN WrittenFact :
          /\ WrittenFact[i].crash_id = Str(2010)
          /\ WrittenFact[i].location_id = NaN
          /\ WrittenFact[j].crash_id = Str(201081)
          /\ WrittenFact[j].location_id = Len(StateNames)

(***************************************************************************)
(* Remoteness fallback: order of the reference rows                        *)
(***************************************************************************)
\* reference row k equals the area name or is a substring of it
NameMatches(area, k) ==
    \/ area = data.remoteness_df[k].Remoteness_Area
    \/ Contains(area, data.remoteness_df[k].Remoteness_Area)

\* the category and the jurisdiction code of reference row k are substrings
\* of the area name
CategoryAndStateMatch(area, k) ==
    /\ Contains(area, data.remoteness_df[k].Remoteness_Category)
    /\ Contains(area, data.remoteness_df[k].State)

\* C24: an area matched by no reference name and by several rows through
\* category and jurisdiction code takes the population of the last of them;
\* an area matched by a reference name takes the population of the first row
\* that matches by name, whatever rows matched by category and code before it
C24_FallbackTieBreak ==
    PopulationWritten =>
        \A j \in DOMAIN PopulationDim :
            LET area == PopulationDim[j]["Remoteness Area"]
                refs == data.remoteness_df
                byName == {k \in DOMAIN refs : NameMatches(area, k)}
                byCode == {k \in DOMAIN refs : CategoryAndStateMatch(area, k)}
            IN  /\ (byName = {} /\ byCode # {}) =>
                      \E k \in byCode :
                          /\ \A m \in byCode : m <= k
                          /\ PopulationDim[j]["Population"] = refs[k].Population
                /\ byName # {} =>
                      \E k \in byName :
                          /\ \A m \in byName : k <= m
                          /\ PopulationDim[j]["Population"] = refs[k].Population

\* 'Very Remote NSW' has taken the population of the second of two rows that
\* match by category and code, and 'Very Remote NSW Remote Australia (NSW)'
\* that of a row matching by name that comes after a row matching by code
C24_Witness ==
    /\ PopulationWritten
    /\ data.remoteness_df = <<RefRow(NSW, VeryRemote, 200), RefRow(NSW, Remote, 100)>>
    /\ \E i, j \in DOMAIN PopulationDim :
          /\ PopulationDim[i]["Remoteness Area"] = VeryRemoteNSW
          /\ PopulationDim[i]["Population"] = 100
          /\ PopulationDim[j]["Remoteness Area"] = VeryRemoteNSWThenRemote
          /\ PopulationDim[j]["Population"] = 100

(***************************************************************************)
(* LGA matching: inputs and property                                       *)
(***************************************************************************)
Ryde == <<"R", "y", "d", "e">>

\* 'Ryde (C)', an LGA name with its class in parentheses
RydeC == Ryde \o <<" ", "(", "C", ")">>

\* one record of lga_data
LgaRow(name, population) ==
    [LGA_Code |-> population, LGA_Name |-> name, LGA_Population |-> population]

LgaRefRows == {LgaRow(Ryde, 10), LgaRow(<<"R", "y">>, 20), LgaRow(RydeC, 30)}

LgaRefTables == {t \in SeqsOf(LgaRefRows, 0, MaxRef) : Distinct(t)}

\* LGA names of the crash data: a reference name, a part of one, one with
\* parentheses, one with a dot, 'Unknown' and null
LgaNames == {Ryde, <<"R", "y", "d">>, RydeC, <<"R", ".", "d", "e">>, UnknownText, NaNText}

LgaCrashTables ==
    {[i \in DOMAIN names |->
        [RawCrash(AreaCrashIds[i], 2010, 1, 1, NaNText)
            EXCEPT !["National LGA Name 2021"] = names[i]]] :
        names \in SeqsOf(LgaNames, 1, MaxArea)}

InitLga ==
    /\ pc = "etl_start"
    /\ ret = "none"
    /\ mem = <<>>
    /\ runs = <<>>
    /\ output = NoOutput
    /\ \E crashes \in LgaCrashTables, refs \in LgaRefTables :
          data = [fatal_crash |-> crashes, fatalities |-> OneFatalityEach(crashes),
                  remoteness_df |-> DefaultRemoteness, lga_df |-> refs, missing |-> {}]

SpecLga == InitLga /\ [][NextEtl]_vars

LgaDim == output["lga_dimension"].rows

PopulationStageDone == pc \in {"etl_crash_type", "etl_season", "etl_fact", "etl_done"}

\* C25: every LGA name of the crash data other than 'Unknown' has one LGA
\* entry; it is 'Reference Data' with the population of the first reference
\* row whose name is a plain substring of the crash-data name when there is
\* such a row, and 'Derived' with a null population otherwise
C25_LgaBySubstring ==
    PopulationStageDone =>
        \A i \in DOMAIN mem.fatal_crash :
            LET lga == mem.fatal_crash[i]["National LGA Name 2021"]
                refs == data.lga_df
                hits == {k \in DOMAIN refs : Contains(lga, refs[k].LGA_Name)}
            IN  lga \notin {NaNText, UnknownText} =>
                  \E j \in DOMAIN LgaDim :
                      /\ LgaDim[j]["LGA Name"] = lga
                      /\ \A m \in DOMAIN LgaDim : LgaDim[m]["LGA Name"] = lga => m = j
                      /\ IF hits = {}
                         THEN /\ LgaDim[j]["Data Source"] = "Derived"
                              /\ LgaDim[j]["Population"] = NaN
                         ELSE /\ LgaDim[j]["Data Source"] = "Reference Data"
                              /\ \E k \in hits :
                                    /\ \A m \in hits : k <= m
                                    /\ LgaDim[j]["Population"] = refs[k].LGA_Population

\* C25 with the containment the other way round: the crash-data name is a
\* plain substring of the reference name
C25_LgaContainedInReference ==
    PopulationStageDone =>
        \A j \in DOMAIN LgaDim :
            LET hits == {k \in DOMAIN data.lga_df :
                            Contains(data.lga_df[k].LGA_Name, LgaDim[j]["LGA Name"])}
            IN  LgaDim[j]["Data Source"] = "Reference Data" <=> hits # {}

(***************************************************************************)
(* Remoteness reference parsing: inputs and property                       *)
(***************************************************************************)
MaxLines == 3

\* 'Australia (NSW)': a line value that introduces a jurisdiction
Introducing(state) == Australia \o <<" ", "(">> \o state \o <<")">>

\* the lines of remoteness_areas.csv, each as its comma-separated values: two
\* introducing lines, a 'Remote' and a 'Very Remote' line, a 'Remote' line
\* that names its jurisdiction, and a line whose first values are not numbers
ReferenceLines ==
    {<<Introducing(NSW)>>,
     <<Remote, Str(100)>>,
     <<VeryRemote, Str(200)>>,
     <<RefAreaName(Remote, NSW), Str(300)>>,
     <<MajorCities, <<"n", "/", "a">>, <<" ", "7", ".">>, Str(8)>>,
     <<Introducing(Vic)>>}

BlankLines(n) == [i \in 1..n |-> <<<<>>>>]

\* files of 1..MaxLines lines, with no blank line after the first line, or
\* as many as put the second line last inside or first outside the window
ReferenceFiles ==
    {<<first>> \o BlankLines(blank) \o rest :
        first \in ReferenceLines,
        blank \in {0, Window - 2, Window - 1},
        rest \in SeqsOf(ReferenceLines, 0, MaxLines - 1)}

InitParse ==
    /\ pc = "etl_start"
    /\ ret = "none"
    /\ mem = <<>>
    /\ runs = <<>>
    /\ output = NoOutput
    /\ \E lines \in ReferenceFiles :
          data = [fatal_crash |-> <<RawCrash(Str(201011), 2010, 1, 2,
                                             RefAreaName(Remote, NSW))>>,
                  fatalities |-> <<RawFatality(Str(201011), 2010, 20, "17_to_25")>>,
                  remoteness_lines |-> lines, lga_df |-> <<>>, missing |-> {}]

SpecParse == InitParse /\ [][NextEtl]_vars

ReferenceLoaded == pc \notin {"etl_start", "etl_exit"}

\* line j holds the category of a parsed row, and the row's population is
\* the first numeric-looking value of the line
TakenFrom(row, j) ==
    LET line == data.remoteness_lines[j]
        numeric == {t \in DOMAIN line : NumericLooking(Strip(line[t]))}
    IN  /\ LineHas(line, row.Remoteness_Category)
        /\ \E t \in numeric :
              /\ \A u \in numeric : t <= u
              /\ row.Population = ParseFloat(Strip(line[t]))

\* C26: the parsed reference holds at most one row for a jurisdiction and a
\* category; every row comes from a line that holds its category among the
\* Window lines after a line introducing its jurisdiction, with the first
\* numeric-looking value of that line as population, and a 'Remote' row
\* never from a 'Very Remote' line
C26_ReferenceParsing ==
    ReferenceLoaded =>
        /\ \A k, m \in DOMAIN mem.remoteness_df :
              (/\ mem.remoteness_df[k].State = mem.remoteness_df[m].State
               /\ mem.remoteness_df[k].Remoteness_Category
                      = mem.remoteness_df[m].Remoteness_Category)
              => k = m
        /\ \A k \in DOMAIN mem.remoteness_df :
              \E i \in DOMAIN data.remoteness_lines :
                  /\ LineHas(data.remoteness_lines[i], mem.remoteness_df[k].State)
                  /\ LineHas(data.remoteness_lines[i], Australia)
                  /\ \E j \in (i + 1)..(i + Window) :
                        /\ j \in DOMAIN data.remoteness_lines
                        /\ TakenFrom(mem.remoteness_df[k], j)
                        /\ mem.remoteness_df[k].Remoteness_Category = Remote
                              => ~LineHas(data.remoteness_lines[j], VeryRemote)

\* the last part of C26 alone: a 'Remote' row comes from some line that
\* holds 'Remote' and not 'Very Remote'
C26_RemoteNotFromVeryRemote ==
    ReferenceLoaded =>
        \A k \in DOMAIN mem.remoteness_df :
            mem.remoteness_df[k].Remoteness_Category = Remote =>
                \E j \in DOMAIN data.remoteness_lines :
                    /\ TakenFrom(mem.remoteness_df[k], j)
                    /\ ~LineHas(data.remoteness_lines[j], VeryRemote)

\* C26 with the window as the code scans it: the introducing line and the
\* Window - 1 lines after it, a 'Very Remote' line counting as a 'Remote' line
C26_WindowFromIntroducingLine ==
    ReferenceLoaded =>
        /\ \A k, m \in DOMAIN mem.remoteness_df :
              (/\ mem.remoteness_df[k].State = mem.remoteness_df[m].State
               /\ mem.remoteness_df[k].Remoteness_Category
                      = mem.remoteness_df[m].Remoteness_Category)
              => k = m
        /\ \A k \in DOMAIN mem.remoteness_df :
              \E i \in DOMAIN data.remoteness_lines :
                  /\ LineHas(data.remoteness_lines[i], mem.remoteness_df[k].State)
                  /\ LineHas(data.remoteness_lines[i], Australia)
                  /\ \E j \in i..(i + Window - 1) :
                        /\ j \in DOMAIN data.remoteness_lines
                        /\ TakenFrom(mem.remoteness_df[k], j)

====
